---- MODULE Spec2Model ----
(***************************************************************************)
(* Model of the aggregation engine of fitbod-report:                       *)
(*   src/src/report/generator.py  summarize_by_week, aggregate_summaries,  *)
(*                                generate_period_summary,                 *)
(*                                generate_markdown_report                 *)
(*   src/src/utils/converters.py  seconds_to_time, convert_units,          *)
(*                                round_to_gym_weight                      *)
(*                                                                         *)
(* Numbers.  The code computes with Python floats; the model computes the  *)
(* same values exactly, as fixed-point integers:                           *)
(*   Weight(kg)    in units of 0.01 kg                                     *)
(*   pounds        in units of 0.5 lb (every result of round_to_gym_weight *)
(*                 is a multiple of 0.5 lb)                                *)
(*   Distance(m)   in metres; converted distances in 1e-8 ("km" branch) or *)
(*                 1e-9 ("miles" branch) of the display unit               *)
(*   Duration(s)   in seconds                                              *)
(*   Date          in seconds since Monday 2024-01-01 00:00:00 UTC (the    *)
(*                 text '%Y-%m-%d %H:%M:%S' read as a naive UTC instant)   *)
(*   timezone      as its UTC offset in seconds (no DST change on the      *)
(*                 modelled days)                                          *)
(* A calendar date is its day number since that Monday, so weekday() of a  *)
(* date is (day % 7) with Monday = 0, as in Python.                        *)
(***************************************************************************)
EXTENDS Integers, Sequences, FiniteSets, TLC

\* Longest input (number of entries of processed_data) that is explored.
MaxLen == 3

\* generator.py:366  "if time_gap <= 1800:  # 30 minutes in seconds"
SESSION_GAP == 1800

\* generator.py:321  "duration > 300"
CARDIO_MIN_DURATION == 300

\* generator.py:407  120 s per working set, 60 s per warm-up set
WORKING_SET_SECONDS == 120
WARMUP_SET_SECONDS == 60

\* Timestamps, in seconds since Monday 00:00:00 UTC of the first modelled
\* week: Sunday 23:36:40, Sunday 23:53:20 and (next) Monday 00:10:00, which
\* are 1000 s and 2000 s apart and lie on one local day in New York and on
\* two days of two weeks in UTC; and Wednesday 12:00:00.
SundayLate == 6 * 86400 + 85000
SundayLater == 6 * 86400 + 86000
MondayEarly == 7 * 86400 + 600
WednesdayNoon == 2 * 86400 + 43200

\* UTC offsets of the configured time zone: America/New_York (EST), UTC.
TzOffsets == {0 - 18000, 0}

\* Rows of the export without their Date.
\* a working strength set: 5 x 20 kg
BenchSet ==
  [Exercise |-> "Bench", Reps |-> 5, Weight |-> 2000, Distance |-> 0,
   Duration |-> 0, isWarmup |-> "false"]
\* a warm-up strength set: 5 x 5 kg
BenchWarmup ==
  [Exercise |-> "Bench", Reps |-> 5, Weight |-> 500, Distance |-> 0,
   Duration |-> 0, isWarmup |-> "true"]
\* a timed body-weight hold (strength, with a Duration)
PlankHold ==
  [Exercise |-> "Plank", Reps |-> 0, Weight |-> 0, Distance |-> 0,
   Duration |-> 60, isWarmup |-> "false"]
\* a run (cardio)
RunTimed ==
  [Exercise |-> "Run", Reps |-> 0, Weight |-> 0, Distance |-> 400,
   Duration |-> 600, isWarmup |-> "false"]
\* a distance-only row (neither cardio nor strength)
RunUntimed ==
  [Exercise |-> "Run", Reps |-> 0, Weight |-> 0, Distance |-> 400,
   Duration |-> 0, isWarmup |-> "false"]
\* a 0.2 kg carry over a distance (0.2 kg is gym-rounded to 0 lb)
LightCarry ==
  [Exercise |-> "Carry", Reps |-> 0, Weight |-> 20, Distance |-> 400,
   Duration |-> 0, isWarmup |-> "false"]

\* The formats a Date text is parsed with (generator.py:286, 290, 293), a
\* text in the first format followed by a UTC offset ("...+00:00"), and a
\* text in none of them.
FULL_FORMAT == "%Y-%m-%d %H:%M:%S"
MINUTE_FORMAT == "%Y-%m-%d %H:%M"
DATE_FORMAT == "%Y-%m-%d"
FULL_WITH_OFFSET == "%Y-%m-%d %H:%M:%S+%z"
NO_FORMAT == "%d/%m/%Y"

\* The field Date of a row is a text: DateText is the format the text is
\* written in, Date the instant it denotes.
At(times, shapes) ==
  { [Date |-> t, DateText |-> FULL_FORMAT] @@ s : t \in times, s \in shapes }

\* The entries an input is made of.
Entries ==
  At({SundayLate, SundayLater, MondayEarly}, {BenchSet})
    \cup At({SundayLate}, {BenchWarmup})
    \cup At({SundayLater}, {PlankHold, RunUntimed, LightCarry})
    \cup At({WednesdayNoon, MondayEarly}, {RunTimed})

RECURSIVE SeqsUpTo(_, _)
SeqsUpTo(S, n) ==
  IF n = 0 THEN { <<>> }
  ELSE LET shorter == SeqsUpTo(S, n - 1)
       IN  shorter \cup { Append(q, e) : q \in { r \in shorter : Len(r) = n - 1 }, e \in S }

VARIABLES
  processed_data,    \* the argument: a list of entries
  use_metric,        \* the argument use_metric
  timezone,          \* the argument timezone, as its UTC offset
  pc,                \* which loop of summarize_by_week runs
  i,                 \* index of the next entry of the first loop
  workouts_by_date,  \* dict: date -> {exercises, week_key, strength_sessions}
  date_keys,         \* insertion order of workouts_by_date
  d,                 \* index into date_keys of the second / third loop
  j,                 \* index into a day's exercises in the third loop
  summaries,         \* dict: week_key -> bucket
  week_keys,         \* insertion order of summaries
  period_type,       \* argument of aggregate_summaries / generate_markdown_report
  report_format,     \* argument report_format of generate_markdown_report
  sorted_weeks,      \* the week keys of summaries, sorted by start date
  pos,               \* index of the loop over sorted_weeks or sorted periods
  period_summaries,  \* dict: period_key -> period bucket
  overall_summary,   \* totals over all weeks (generate_markdown_report)
  previous_summary,  \* previous_week_summary / previous_period_summary
  report             \* the report written so far, a sequence of sections

report_vars == << period_type, report_format, sorted_weeks, pos,
                  period_summaries, overall_summary, previous_summary, report >>

vars == << processed_data, use_metric, timezone, pc, i, workouts_by_date,
           date_keys, d, j, summaries, week_keys, report_vars >>

-----------------------------------------------------------------------------
(* converters.py *)

\* Python's round(): n/den to the nearest integer, ties to the even one.
RoundHalfEven(n, den) ==
  LET q == n \div den
      r == n % den
  IN  IF 2 * r < den THEN q
      ELSE IF 2 * r > den THEN q + 1
      ELSE IF q % 2 = 0 THEN q ELSE q + 1

\* weight_lbs is given in 1e-7 lb; the result is in half pounds.
round_to_gym_weight(weight_lbs) ==
  IF weight_lbs < 5 * 10000000
    THEN 2 * RoundHalfEven(weight_lbs, 10000000)
  ELSE IF weight_lbs < 15 * 10000000
    THEN RoundHalfEven(2 * weight_lbs, 10000000)
  ELSE 2 * 5 * RoundHalfEven(weight_lbs, 5 * 10000000)

\* convert_units(value / scale, unit_type, to_metric)[0].  The result is
\*   weight,   to_metric:      value * 0.453592     in 1/(scale * 10^6)
\*   weight,   not to_metric:  gym-rounded pounds   in half pounds
\*   distance, to_metric:      value * 1.60934      in 1/(scale * 10^5)
\*   distance, not to_metric:  value * 0.621371     in 1/(scale * 10^6)
convert_units(value, scale, unit_type, to_metric) ==
  IF unit_type = "weight"
    THEN IF to_metric
           THEN value * 453592
           ELSE round_to_gym_weight(value * (22046200 \div scale))
  ELSE IF unit_type = "distance"
    THEN IF to_metric THEN value * 160934 ELSE value * 621371
  ELSE value

\* scale of the weight kept in a cleaned entry: 0.01 kg, or half pounds
WeightScale(metric) == IF metric THEN 100 ELSE 2

-----------------------------------------------------------------------------
(* summarize_by_week, first loop: clean, classify, group by day *)

\* IsCardio with ">= 0" written for "> 0" in the duration test of line 320
IsCardio_DurationFromZero(reps, distance_m, duration) ==
  \/ (duration >= 0 /\ distance_m > 0)
  \/ (reps = 0 /\ distance_m = 0 /\ duration > CARDIO_MIN_DURATION)

\* generator.py:319-322
IsCardio(reps, distance_m, duration) ==
  \/ (duration > 0 /\ distance_m > 0)
  \/ (reps = 0 /\ distance_m = 0 /\ duration > CARDIO_MIN_DURATION)

\* generator.py:325-331; weight is the local variable of that name, which
\* line 312 has overwritten with the converted weight when not use_metric
IsStrength(is_cardio, reps, weight, distance_m, duration) ==
  /\ ~is_cardio
  /\ \/ (reps = 0 /\ weight > 0)
     \/ (reps > 0 /\ weight = 0 /\ duration = 0)
     \/ (reps > 0 /\ weight > 0)
     \/ (reps > 0 /\ distance_m = 0)
     \/ (reps = 0 /\ distance_m = 0)

\* generator.py:310-316: the weight all later code sees
ConvertedWeight(weight, metric) ==
  IF ~metric THEN convert_units(weight, 100, "weight", FALSE) ELSE weight

\* generator.py:296: date_utc.replace(tzinfo=UTC).astimezone(tz), kept as
\* the local wall-clock second (differences of two local_datetime values of
\* one run equal the differences of the instants)
LocalDatetime(date_utc, tz) == date_utc + tz

\* strftime('%Y-%m-%d') of a local datetime: the local day number
DateOf(local) == local \div 86400

\* WeekKeyOf with isoweekday() (Monday = 1) written for weekday()
WeekKeyOf_IsoWeekday(local) ==
  LET week_start == DateOf(local) - ((DateOf(local) % 7) + 1)
  IN  << week_start, week_start + 6 >>

\* generator.py:298-299: '<Monday> to <Sunday>' as the pair of day numbers
WeekKeyOf(local) ==
  LET week_start == DateOf(local) - (DateOf(local) % 7)
  IN  << week_start, week_start + 6 >>

\* generator.py:279-344.  id is the position of the entry in processed_data:
\* it stands for the identity of the cleaned_entry object, which the code
\* puts both into the day's 'exercises' and into a session.
\* generator.py:279-282: date_str.split('+')[0].strip() when it has a '+'
StripOffset(date_text) ==
  IF date_text = FULL_WITH_OFFSET THEN FULL_FORMAT ELSE date_text

\* datetime.strptime(date_str, format): << the instant >>, or << >> for a
\* ValueError; a text matches the one format it is written in
strptime(date_text, instant, format) ==
  IF date_text = format THEN << instant >> ELSE << >>

\* ParseDate without the fall-back to the date-only format
ParseDate_NoDateOnly(entry) ==
  LET date_str == StripOffset(entry.DateText)
      with_seconds == strptime(date_str, entry.Date, FULL_FORMAT)
  IN  IF with_seconds # << >> THEN with_seconds
      ELSE strptime(date_str, entry.Date, MINUTE_FORMAT)

\* generator.py:279-293: << date_utc >>, or << >> when the last strptime
\* raises its ValueError
ParseDate(entry) ==
  LET date_str == StripOffset(entry.DateText)
      with_seconds == strptime(date_str, entry.Date, FULL_FORMAT)
      without_seconds == strptime(date_str, entry.Date, MINUTE_FORMAT)
  IN  IF with_seconds # << >> THEN with_seconds
      ELSE IF without_seconds # << >> THEN without_seconds
      ELSE strptime(date_str, entry.Date, DATE_FORMAT)

\* the keys of an entry the first loop looks up: entry['Date'],
\* entry['Weight(kg)'], entry['Reps'], entry['Distance(m)'],
\* entry['Duration(s)'], with one more key that no row has
FirstLoopKeys_WithNote == {"Date", "Weight", "Reps", "Distance", "Duration", "Note"}

\* generator.py:279, 302-306: the keys the first loop looks up
FirstLoopKeys == {"Date", "Weight", "Reps", "Distance", "Duration"}

\* generator.py:279-308: an iteration of the first loop raises (KeyError of
\* a lookup, ValueError of the last strptime); nothing catches it
IngestRaises(entry) ==
  IF \E key \in FirstLoopKeys : key \notin DOMAIN entry THEN TRUE
  ELSE ParseDate(entry) = << >>

\* generator.py:407: ex['isWarmup'] of every entry of a session whose
\* timestamps are all the same
SessionDurationsRaises(sessions) ==
  \E s \in DOMAIN sessions :
    /\ Cardinality({ sessions[s][k].local_datetime : k \in DOMAIN sessions[s] }) <= 1
    /\ \E k \in DOMAIN sessions[s] : "isWarmup" \notin DOMAIN sessions[s][k]

\* generator.py:429, 433: exercise['Exercise'], exercise['isWarmup']
AccumulateRaises(exercise) ==
  \E key \in {"Exercise", "isWarmup"} : key \notin DOMAIN exercise

CleanedEntry(entry, id, metric, tz) ==
  LET local_date == LocalDatetime(ParseDate(entry)[1], tz)
      weight     == ConvertedWeight(entry.Weight, metric)
      reps       == entry.Reps
      distance_m == entry.Distance
      duration   == entry.Duration
      is_cardio  == IsCardio(reps, distance_m, duration)
      is_strength == IsStrength(is_cardio, reps, weight, distance_m, duration)
  IN  [ id |-> id,
        local_datetime |-> local_date,
        is_cardio |-> is_cardio,
        is_strength |-> is_strength,
        duration |-> duration,
        weight |-> weight,
        weight_unit |-> IF ~metric THEN "lbs" ELSE "kg",
        reps |-> reps,
        distance_m |-> distance_m ]
        @@ [ key \in DOMAIN entry \cap {"Exercise", "isWarmup"} |-> entry[key] ]

\* generator.py:361-366: index of the first session, in creation order, whose
\* last entry passes the gap test; 0 when there is none
RECURSIVE FindSession(_, _, _)
FindSession(sessions, local_date, k) ==
  IF k > Len(sessions) THEN 0
  ELSE LET session == sessions[k]
           last_exercise == session[Len(session)]
           time_gap == local_date - last_exercise.local_datetime
       IN  IF time_gap <= SESSION_GAP THEN k
           ELSE FindSession(sessions, local_date, k + 1)

\* TrackSession without the "break" of line 369: the entry is appended to
\* every session that passes the gap test
TrackSession_NoBreak(sessions, cleaned) ==
  IF cleaned.is_strength
    THEN IF FindSession(sessions, cleaned.local_datetime, 1) # 0
           THEN [ k \in DOMAIN sessions |->
                    IF cleaned.local_datetime
                         - sessions[k][Len(sessions[k])].local_datetime
                           <= SESSION_GAP
                      THEN Append(sessions[k], cleaned)
                      ELSE sessions[k] ]
           ELSE Append(sessions, << cleaned >>)
    ELSE sessions

\* TrackSession without the "if is_strength" of line 358
TrackSession_AnyEntry(sessions, cleaned) ==
  LET k == FindSession(sessions, cleaned.local_datetime, 1)
  IN  IF k # 0
        THEN [sessions EXCEPT ![k] = Append(@, cleaned)]
        ELSE Append(sessions, << cleaned >>)

\* TrackSession without the scan of lines 362-370: every strength entry
\* opens a session of its own
TrackSession_AlwaysNew(sessions, cleaned) ==
  IF cleaned.is_strength
    THEN Append(sessions, << cleaned >>)
    ELSE sessions

\* generator.py:358-373
TrackSession(sessions, cleaned) ==
  IF cleaned.is_strength
    THEN LET k == FindSession(sessions, cleaned.local_datetime, 1)
         IN  IF k # 0
               THEN [sessions EXCEPT ![k] = Append(@, cleaned)]
               ELSE Append(sessions, << cleaned >>)
    ELSE sessions

\* generator.py:277-373, one iteration
Ingest ==
  /\ pc = "ingest"
  /\ i <= Len(processed_data)
  /\ ~IngestRaises(processed_data[i])
  /\ LET cleaned == CleanedEntry(processed_data[i], i, use_metric, timezone)
         workout_date == DateOf(cleaned.local_datetime)
         week_key == WeekKeyOf(cleaned.local_datetime)
         known == workout_date \in DOMAIN workouts_by_date
         workout_data ==
           IF known THEN workouts_by_date[workout_date]
           ELSE [exercises |-> <<>>, week_key |-> week_key,
                 strength_sessions |-> <<>>]
         updated ==
           [workout_data EXCEPT
              !.exercises = Append(@, cleaned),
              !.strength_sessions = TrackSession(@, cleaned)]
     IN  /\ workouts_by_date' =
              IF known
                THEN [workouts_by_date EXCEPT ![workout_date] = updated]
                ELSE workouts_by_date @@ (workout_date :> updated)
         /\ date_keys' = IF known THEN date_keys
                         ELSE Append(date_keys, workout_date)
  /\ i' = i + 1
  /\ pc' = IF i = Len(processed_data) THEN "durations" ELSE "ingest"
  /\ UNCHANGED << processed_data, use_metric, timezone, d, j, summaries,
                  week_keys, report_vars >>

-----------------------------------------------------------------------------
(* second loop: buckets and strength durations *)

\* generator.py:379-389
EmptyBucket ==
  [ cardio_duration |-> 0, strength_duration |-> 0, Distance |-> 0,
    Reps |-> 0, Volume |-> 0,
    Distance_by_exercise |-> << >>, Volume_by_exercise |-> << >>,
    Exercise_details |-> << >>, Workouts |-> << >> ]

IsWarmup(ex) == ex.isWarmup = "true"

RECURSIVE EstimatedDuration(_)
EstimatedDuration(session) ==
  IF session = << >> THEN 0
  ELSE (IF ~IsWarmup(Head(session)) THEN WORKING_SET_SECONDS
        ELSE WARMUP_SET_SECONDS) + EstimatedDuration(Tail(session))

\* SessionDuration with len(session) written for the number of distinct
\* timestamps in the test of line 397
SessionDuration_ByLength(session) ==
  IF Len(session) > 1
    THEN session[Len(session)].local_datetime - session[1].local_datetime
    ELSE EstimatedDuration(session)

\* generator.py:393-409
SessionDuration(session) ==
  LET unique_timestamps ==
        Cardinality({ session[k].local_datetime : k \in DOMAIN session })
  IN  IF unique_timestamps > 1
        THEN session[Len(session)].local_datetime - session[1].local_datetime
        ELSE EstimatedDuration(session)

\* DaySessionsDuration with "=" written for "+=" in line 411: the last
\* session of the day overwrites the others
DaySessionsDuration_LastOnly(sessions) ==
  IF sessions = << >> THEN 0
  ELSE SessionDuration(sessions[Len(sessions)])

\* generator.py:392-411: what the sessions of one day add to strength_duration
RECURSIVE DaySessionsDuration(_)
DaySessionsDuration(sessions) ==
  IF sessions = << >> THEN 0
  ELSE (IF Len(Head(sessions)) > 0 THEN SessionDuration(Head(sessions)) ELSE 0)
       + DaySessionsDuration(Tail(sessions))

\* generator.py:376-411, one iteration
SessionDurations ==
  /\ pc = "durations"
  /\ d <= Len(date_keys)
  /\ ~SessionDurationsRaises(workouts_by_date[date_keys[d]].strength_sessions)
  /\ LET workout_data == workouts_by_date[date_keys[d]]
         week_key == workout_data.week_key
         known == week_key \in DOMAIN summaries
         bucket == IF known THEN summaries[week_key] ELSE EmptyBucket
         updated ==
           [bucket EXCEPT !.strength_duration =
              @ + DaySessionsDuration(workout_data.strength_sessions)]
     IN  /\ summaries' =
              IF known THEN [summaries EXCEPT ![week_key] = updated]
              ELSE summaries @@ (week_key :> updated)
         /\ week_keys' = IF known THEN week_keys ELSE Append(week_keys, week_key)
  /\ d' = IF d = Len(date_keys) THEN 1 ELSE d + 1
  /\ pc' = IF d = Len(date_keys) THEN "stats" ELSE "durations"
  /\ UNCHANGED << processed_data, use_metric, timezone, i, workouts_by_date,
                  date_keys, j, report_vars >>

-----------------------------------------------------------------------------
(* third loop: the other statistics *)

\* WorkoutTimeOf without the date: strftime('%H:%M')
WorkoutTimeOf_ClockOnly(local) == (local % 86400) \div 60

\* strftime('%Y-%m-%d %H:%M') of a local datetime: the local minute number
WorkoutTimeOf(local) == local \div 60

\* strftime('%H:%M') of a local datetime: the minute of the local day
ClockTimeOf(local) == (local % 86400) \div 60

\* AddTo with "=" in place of "+="
AddTo_Overwrite(map, key, amount) ==
  (key :> amount) @@ map

\* dict[key] += amount, the key being created with 0 first
AddTo(map, key, amount) ==
  IF key \in DOMAIN map THEN [map EXCEPT ![key] = @ + amount]
  ELSE map @@ (key :> amount)

\* generator.py:449-458
EmptyDetails(is_cardio) ==
  [ sets |-> << >>, total_volume |-> 0, max_weight |-> 0, total_reps |-> 0,
    total_duration |-> 0, working_sets |-> 0, warmup_sets |-> 0,
    is_cardio |-> is_cardio ]

Max(a, b) == IF a >= b THEN a ELSE b

\* UpdateDetails keeping the weight of the latest set as max_weight
UpdateDetails_LatestWeight(details, exercise) ==
  LET volume == exercise.weight * exercise.reps
  IN  [ details EXCEPT
          !.sets = Append(@, [ weight |-> exercise.weight,
                               reps |-> exercise.reps,
                               is_warmup |-> IsWarmup(exercise),
                               duration |-> exercise.duration,
                               is_cardio |-> exercise.is_cardio ]),
          !.total_volume = @ + volume,
          !.max_weight = exercise.weight,
          !.total_reps = @ + exercise.reps,
          !.total_duration = @ + exercise.duration,
          !.warmup_sets = IF IsWarmup(exercise) THEN @ + 1 ELSE @,
          !.working_sets = IF IsWarmup(exercise) THEN @ ELSE @ + 1 ]

\* generator.py:460-478
UpdateDetails(details, exercise) ==
  LET volume == exercise.weight * exercise.reps
  IN  [ details EXCEPT
          !.sets = Append(@, [ weight |-> exercise.weight,
                               reps |-> exercise.reps,
                               is_warmup |-> IsWarmup(exercise),
                               duration |-> exercise.duration,
                               is_cardio |-> exercise.is_cardio ]),
          !.total_volume = @ + volume,
          !.max_weight = Max(@, exercise.weight),
          !.total_reps = @ + exercise.reps,
          !.total_duration = @ + exercise.duration,
          !.warmup_sets = IF IsWarmup(exercise) THEN @ + 1 ELSE @,
          !.working_sets = IF IsWarmup(exercise) THEN @ ELSE @ + 1 ]

\* generator.py:425-437: the per-set display record of the timeline
ExerciseDetail(exercise, metric) ==
  [ exercise |-> exercise.Exercise,
    weight |-> convert_units(exercise.weight, WeightScale(metric), "weight", metric),
    weight_unit |-> IF metric THEN "kg" ELSE "lbs",
    reps |-> exercise.reps,
    is_warmup |-> IsWarmup(exercise),
    time |-> ClockTimeOf(exercise.local_datetime),
    duration |-> exercise.duration,
    is_cardio |-> exercise.is_cardio ]

\* AddCardioDuration without the "if exercise['is_cardio']" of line 444
AddCardioDuration_Unguarded(cardio_duration, exercise) ==
  cardio_duration + exercise.duration

\* generator.py:444-445
AddCardioDuration(cardio_duration, exercise) ==
  IF exercise.is_cardio THEN cardio_duration + exercise.duration
  ELSE cardio_duration

\* generator.py:481-482
ConvertedDistance(distance_m, metric) ==
  convert_units(distance_m, 1000, "distance", metric)

\* generator.py:419-497: what one exercise adds to its week's bucket
AccumulateStats(bucket, exercise, metric) ==
  LET workout_time == WorkoutTimeOf(exercise.local_datetime)
      name == exercise.Exercise
      timeline ==
        IF workout_time \in DOMAIN bucket.Workouts THEN bucket.Workouts
        ELSE bucket.Workouts @@ (workout_time :> << >>)
      details ==
        IF name \in DOMAIN bucket.Exercise_details
          THEN bucket.Exercise_details[name]
          ELSE EmptyDetails(exercise.is_cardio)
      distance == ConvertedDistance(exercise.distance_m, metric)
      volume == exercise.weight * exercise.reps
  IN  [ bucket EXCEPT
          !.Workouts = [timeline EXCEPT ![workout_time] =
                          Append(@, ExerciseDetail(exercise, metric))],
          !.Reps = @ + exercise.reps,
          !.cardio_duration = AddCardioDuration(@, exercise),
          !.Exercise_details =
             (name :> UpdateDetails(details, exercise)) @@ @,
          !.Distance = @ + distance,
          !.Distance_by_exercise =
             IF distance > 0 THEN AddTo(@, name, distance) ELSE @,
          !.Volume = @ + volume,
          !.Volume_by_exercise =
             IF volume > 0 THEN AddTo(@, name, volume) ELSE @ ]

\* generator.py:414-497, one iteration of the inner loop
AccumulateExercise ==
  /\ pc = "stats"
  /\ d <= Len(date_keys)
  /\ ~AccumulateRaises(workouts_by_date[date_keys[d]].exercises[j])
  /\ LET workout_data == workouts_by_date[date_keys[d]]
         week_key == workout_data.week_key
         exercise == workout_data.exercises[j]
         last_of_day == j = Len(workout_data.exercises)
     IN  /\ summaries' =
              [summaries EXCEPT ![week_key] =
                 AccumulateStats(@, exercise, use_metric)]
         /\ j' = IF last_of_day THEN 1 ELSE j + 1
         /\ d' = IF last_of_day THEN d + 1 ELSE d
         /\ pc' = IF last_of_day /\ d = Len(date_keys) THEN "done" ELSE "stats"
  /\ UNCHANGED << processed_data, use_metric, timezone, i, workouts_by_date,
                  date_keys, week_keys, report_vars >>

-----------------------------------------------------------------------------

\* Nothing of the report exists before aggregate_summaries or
\* generate_markdown_report is called; period_type is the argument the call
\* will receive ("None" stands for Python's None, the default).
ReportInit(period_types, report_formats) ==
  /\ period_type \in period_types
  /\ report_format \in report_formats
  /\ sorted_weeks = << >>
  /\ pos = 1
  /\ period_summaries = << >>
  /\ overall_summary = << >>
  /\ previous_summary = << >>
  /\ report = << >>

Init ==
  /\ processed_data \in SeqsUpTo(Entries, MaxLen)
  /\ use_metric \in BOOLEAN
  /\ timezone \in TzOffsets
  /\ pc = IF processed_data = << >> THEN "done" ELSE "ingest"
  /\ i = 1
  /\ workouts_by_date = << >>
  /\ date_keys = << >>
  /\ d = 1
  /\ j = 1
  /\ summaries = << >>
  /\ week_keys = << >>
  /\ ReportInit({"None"}, {"summary"})

Next == Ingest \/ SessionDurations \/ AccumulateExercise

Spec == Init /\ [][Next]_vars

-----------------------------------------------------------------------------
(* The classifier alone: summarize_by_week run on every one-entry input     *)
(* over a grid of (reps, weight, distance, duration).                       *)

SampleReps == {0, 1, 5}
\* 0.2 kg is 0.44 lb, which round_to_gym_weight rounds to 0 lb; 0.3 kg is
\* 0.66 lb, rounded to 1 lb.
SampleWeights == {0, 20, 30, 2000}
SampleDistances == {0, 400}
SampleDurations == {0, 1, 300, 301}

SampleEntries ==
  { [Date |-> SundayLate, DateText |-> FULL_FORMAT,
     Exercise |-> "Sample", Reps |-> r, Weight |-> w,
     Distance |-> m, Duration |-> u, isWarmup |-> "false"] :
      r \in SampleReps, w \in SampleWeights, m \in SampleDistances,
      u \in SampleDurations }

InitClassify ==
  /\ processed_data \in { << e >> : e \in SampleEntries }
  /\ use_metric \in BOOLEAN
  /\ timezone = 0
  /\ pc = "ingest"
  /\ i = 1
  /\ workouts_by_date = << >>
  /\ date_keys = << >>
  /\ d = 1
  /\ j = 1
  /\ summaries = << >>
  /\ week_keys = << >>
  /\ ReportInit({"None"}, {"summary"})

SpecClassify == InitClassify /\ [][Next]_vars

-----------------------------------------------------------------------------
(* Vocabulary of the properties *)

Range(seq) == { seq[k] : k \in DOMAIN seq }

RECURSIVE SumSeq(_)
SumSeq(seq) == IF seq = << >> THEN 0 ELSE Head(seq) + SumSeq(Tail(seq))

Abs(x) == IF x < 0 THEN 0 - x ELSE x

\* every cleaned entry the first loop has stored so far
AllExercises ==
  UNION { Range(workouts_by_date[dt].exercises) : dt \in DOMAIN workouts_by_date }

\* the input entry a cleaned entry was made from
Source(ex) == processed_data[ex.id]

IsNeither(ex) == ~ex.is_cardio /\ ~ex.is_strength

-----------------------------------------------------------------------------
(* C1 *)

\* C1 (as claimed): for every entry, is_cardio holds exactly when
\* (duration > 0 and distance > 0) or (reps = 0 and distance = 0 and
\* duration > 300) on the entry's values, is_strength holds exactly when the
\* entry is not cardio and one of the five strength conditions holds on the
\* entry's (reps, weight in kg, distance, duration), and the two tags are
\* never both true.
C1_ClassificationContract ==
  \A ex \in AllExercises :
    LET e == Source(ex)
        cardio == \/ (e.Duration > 0 /\ e.Distance > 0)
                  \/ (e.Reps = 0 /\ e.Distance = 0 /\ e.Duration > 300)
        strength == /\ ~cardio
                    /\ \/ (e.Reps = 0 /\ e.Weight > 0)
                       \/ (e.Reps > 0 /\ e.Weight = 0 /\ e.Duration = 0)
                       \/ (e.Reps > 0 /\ e.Weight > 0)
                       \/ (e.Reps > 0 /\ e.Distance = 0)
                       \/ (e.Reps = 0 /\ e.Distance = 0)
    IN  /\ ex.is_cardio = cardio
        /\ ex.is_strength = strength
        /\ ~(ex.is_cardio /\ ex.is_strength)

-----------------------------------------------------------------------------
(* C2 *)

\* C2 (as claimed): every entry with reps = 0, weight = 0, distance > 0 and
\* duration <= 300, positive durations included, is neither cardio nor
\* strength.
C2_Original ==
  \A ex \in AllExercises :
    LET e == Source(ex)
    IN  (e.Reps = 0 /\ e.Weight = 0 /\ e.Distance > 0 /\ e.Duration <= 300)
          => IsNeither(ex)

\* C2 (amended): an entry with reps = 0, weight = 0 and distance > 0 is
\* neither cardio nor strength exactly when its duration is 0; with any
\* positive duration, those up to 300 included, it is cardio and not
\* strength.
C2_NeitherOnlyWithoutDuration ==
  \A ex \in AllExercises :
    LET e == Source(ex)
    IN  (e.Reps = 0 /\ e.Weight = 0 /\ e.Distance > 0)
          => /\ (e.Duration = 0 => IsNeither(ex))
             /\ (e.Duration > 0 => (ex.is_cardio /\ ~ex.is_strength))

\* a distance-only entry without duration has been classified
C2_Witness ==
  \E ex \in AllExercises :
    LET e == Source(ex)
    IN  /\ e.Reps = 0 /\ e.Weight = 0 /\ e.Distance > 0 /\ e.Duration = 0
        /\ IsNeither(ex)

-----------------------------------------------------------------------------
(* C3 *)

\* C3 (as claimed): the tags of an entry are the same under use_metric = True
\* and use_metric = False: the run at hand gives every entry the tags the run
\* with the other unit system gives it.
C3_TagsIgnoreUnitSystem ==
  \A ex \in AllExercises :
    LET other == CleanedEntry(Source(ex), ex.id, ~use_metric, timezone)
    IN  /\ ex.is_cardio = other.is_cardio
        /\ ex.is_strength = other.is_strength

-----------------------------------------------------------------------------
(* Vocabulary of the properties about sessions, days and weeks *)

RECURSIVE SumFn(_, _)
SumFn(f, S) ==
  IF S = {} THEN 0
  ELSE LET x == CHOOSE y \in S : TRUE
       IN  f[x] + SumFn(f, S \ {x})

Ids == 1 .. Len(processed_data)

\* the local calendar day of the n-th input entry
LocalDay(n) == (processed_data[n].Date + timezone) \div 86400

\* the input entries whose local day lies in the week <<monday, sunday>>
IdsOfWeek(wk) == { n \in Ids : wk[1] <= LocalDay(n) /\ LocalDay(n) <= wk[2] }

ExerciseById(n) == CHOOSE ex \in AllExercises : ex.id = n

SessionsOf(dt) == workouts_by_date[dt].strength_sessions

\* every place of every session: << day, session number, position >>
SessionSlots ==
  { << dt, s, k >> \in
      (DOMAIN workouts_by_date) \X (1 .. MaxLen + 1) \X (1 .. MaxLen + 1) :
        s <= Len(SessionsOf(dt)) /\ k <= Len(SessionsOf(dt)[s]) }

\* the days whose sessions the second loop has added to their bucket
DurationDays ==
  IF pc = "ingest" THEN {}
  ELSE IF pc = "durations" THEN { date_keys[a] : a \in 1 .. (d - 1) }
  ELSE DOMAIN workouts_by_date

\* the entries the third loop has accumulated
AccumulatedIds ==
  IF pc = "done" THEN { ex.id : ex \in AllExercises }
  ELSE IF pc = "stats"
    THEN { workouts_by_date[date_keys[a]].exercises[b].id :
             << a, b >> \in
               { q \in (1 .. Len(date_keys)) \X (1 .. MaxLen + 1) :
                   /\ q[2] <= Len(workouts_by_date[date_keys[q[1]]].exercises)
                   /\ (q[1] < d \/ (q[1] = d /\ q[2] < j)) } }
  ELSE {}

\* The duration of a session as section 4.2 of the specification states it,
\* from the timestamps and warm-up flags of the input entries alone.
StatedDuration(session) ==
  LET stamps == { Source(session[k]).Date : k \in DOMAIN session }
      working == Cardinality({ k \in DOMAIN session :
                                 Source(session[k]).isWarmup # "true" })
      warmup == Len(session) - working
  IN  IF Cardinality(stamps) > 1
        THEN Source(session[Len(session)]).Date - Source(session[1]).Date
        ELSE 120 * working + 60 * warmup

\* the sessions (as places << day, number >>) of the days of a week that the
\* second loop has visited
SessionsOfWeek(wk) ==
  { << dt, s >> \in (DurationDays \X (1 .. MaxLen + 1)) :
      /\ wk[1] <= dt /\ dt <= wk[2]
      /\ s <= Len(SessionsOf(dt)) }

-----------------------------------------------------------------------------
(* C4 *)

\* C4: at every point of the first loop and after it, the sessions of all
\* days partition the strength-classified entries consumed so far: every
\* strength entry lies in exactly one place of one session, an entry that is
\* cardio or neither lies in none, every session is non-empty, and all
\* entries of a session have the local calendar date of the session's day.
C4_SessionsPartitionStrength ==
  /\ \A dt \in DOMAIN workouts_by_date :
       \A s \in DOMAIN SessionsOf(dt) :
         /\ Len(SessionsOf(dt)[s]) > 0
         /\ \A k \in DOMAIN SessionsOf(dt)[s] :
              LET ex == SessionsOf(dt)[s][k]
              IN  ex.is_strength /\ ~ex.is_cardio /\ LocalDay(ex.id) = dt
  /\ \A ex \in AllExercises :
       Cardinality({ q \in SessionSlots :
                       SessionsOf(q[1])[q[2]][q[3]].id = ex.id })
         = IF ex.is_strength THEN 1 ELSE 0

\* the run is over, some day has two sessions, some session has two entries
\* and some entry is not strength
C4_Witness ==
  /\ pc = "done"
  /\ \E dt \in DOMAIN workouts_by_date : Len(SessionsOf(dt)) >= 2
  /\ \E ex \in AllExercises : ~ex.is_strength

-----------------------------------------------------------------------------
(* C5 *)

\* C5 (as claimed): in every session, whatever the order of the input, two
\* consecutive entries are at most 1800 seconds apart (absolute difference
\* of their timestamps).
C5_ConsecutiveWithinGap ==
  \A dt \in DOMAIN workouts_by_date :
    \A s \in DOMAIN SessionsOf(dt) :
      \A k \in 1 .. (Len(SessionsOf(dt)[s]) - 1) :
        Abs(Source(SessionsOf(dt)[s][k + 1]).Date
              - Source(SessionsOf(dt)[s][k]).Date) <= 1800

-----------------------------------------------------------------------------
(* C6 *)

\* C6: once the second loop has visited the days of a week that hold exactly
\* one session between them, the week's strength_duration is that session's
\* duration as stated: last timestamp minus first timestamp when the session
\* holds more than one distinct timestamp, otherwise 120 s per working set
\* plus 60 s per warm-up set; for three same-timestamp entries, two working
\* and one warm-up, that is 300 s.
C6_SessionDuration ==
  \A wk \in DOMAIN summaries :
    (pc \in {"stats", "done"} /\ Cardinality(SessionsOfWeek(wk)) = 1)
      => LET q == CHOOSE r \in SessionsOfWeek(wk) : TRUE
             session == SessionsOf(q[1])[q[2]]
             stamps == { Source(session[k]).Date : k \in DOMAIN session }
             warmups == { k \in DOMAIN session :
                            Source(session[k]).isWarmup = "true" }
         IN  /\ summaries[wk].strength_duration = StatedDuration(session)
             /\ (Len(session) = 3 /\ Cardinality(stamps) = 1
                   /\ Cardinality(warmups) = 1)
                  => summaries[wk].strength_duration = 300

\* the run is over and a week's only session is three same-timestamp
\* entries, two working sets and one warm-up
C6_Witness ==
  /\ pc = "done"
  /\ \E wk \in DOMAIN summaries :
       /\ Cardinality(SessionsOfWeek(wk)) = 1
       /\ LET q == CHOOSE r \in SessionsOfWeek(wk) : TRUE
              session == SessionsOf(q[1])[q[2]]
          IN  /\ Len(session) = 3
              /\ Cardinality({ Source(session[k]).Date : k \in DOMAIN session }) = 1
              /\ Cardinality({ k \in DOMAIN session :
                                 Source(session[k]).isWarmup = "true" }) = 1

-----------------------------------------------------------------------------
(* C7 *)

\* C7: at every point, a week bucket's strength_duration is the sum of the
\* stated durations of exactly the sessions of the days of that week the
\* second loop has visited (so the third loop never changes it, and no
\* Duration(s) value enters it), and a week none of whose entries is cardio
\* has cardio_duration 0 whatever the Duration(s) of its strength entries.
C7_StrengthDurationFromSessions ==
  \A wk \in DOMAIN summaries :
    /\ summaries[wk].strength_duration =
         SumFn([ q \in SessionsOfWeek(wk) |->
                   StatedDuration(SessionsOf(q[1])[q[2]]) ],
               SessionsOfWeek(wk))
    /\ (\A n \in IdsOfWeek(wk) :
          n \in { ex.id : ex \in AllExercises } => ~ExerciseById(n).is_cardio)
         => summaries[wk].cardio_duration = 0

\* the run is over and a week holds two sessions and a strength entry that
\* carries a Duration(s)
C7_Witness ==
  /\ pc = "done"
  /\ \E wk \in DOMAIN summaries :
       /\ Cardinality(SessionsOfWeek(wk)) >= 2
       /\ summaries[wk].strength_duration > 0
       /\ \E n \in IdsOfWeek(wk) :
            ExerciseById(n).is_strength /\ processed_data[n].Duration > 0

-----------------------------------------------------------------------------
(* C8 *)

\* C8: at every point, a week bucket's cardio_duration is the sum of the
\* Duration(s) of exactly the cardio-classified entries of that week that
\* the third loop has accumulated; strength and neither entries add nothing.
C8_CardioDurationFromCardioEntries ==
  \A wk \in DOMAIN summaries :
    summaries[wk].cardio_duration =
      SumFn([ n \in Ids |-> processed_data[n].Duration ],
            { n \in IdsOfWeek(wk) \cap AccumulatedIds :
                ExerciseById(n).is_cardio })

\* the run is over and a week holds a cardio entry beside a strength entry
\* with a Duration(s)
C8_Witness ==
  /\ pc = "done"
  /\ \E wk \in DOMAIN summaries :
       /\ summaries[wk].cardio_duration > 0
       /\ \E n \in IdsOfWeek(wk) :
            ExerciseById(n).is_strength /\ processed_data[n].Duration > 0

-----------------------------------------------------------------------------
(* C9 *)

\* C9: the step of the third loop that accumulates an entry that is neither
\* cardio nor strength adds its reps to the week's Reps, its converted
\* distance to Distance and its weight x reps to Volume, and leaves the
\* week's cardio_duration and strength_duration as they were; the step of
\* the first loop that consumes such an entry leaves the session list of its
\* day as it was (empty when the day is new).
C9_NeitherEntryFrame ==
  [][ /\ (pc = "stats" /\ d <= Len(date_keys))
           => LET day == workouts_by_date[date_keys[d]]
                  cur == day.exercises[j]
                  before == summaries[day.week_key]
                  after == summaries'[day.week_key]
              IN  IsNeither(cur)
                    => /\ after.Reps = before.Reps + cur.reps
                       /\ after.Distance = before.Distance
                            + ConvertedDistance(Source(cur).Distance, use_metric)
                       /\ after.Volume = before.Volume + cur.weight * cur.reps
                       /\ after.cardio_duration = before.cardio_duration
                       /\ after.strength_duration = before.strength_duration
                       /\ workouts_by_date' = workouts_by_date
      /\ (pc = "ingest" /\ i <= Len(processed_data))
           => LET day == LocalDay(i)
                  cur == workouts_by_date'[day].exercises[
                           Len(workouts_by_date'[day].exercises)]
              IN  IsNeither(cur)
                    => /\ workouts_by_date'[day].strength_sessions =
                            IF day \in DOMAIN workouts_by_date
                              THEN workouts_by_date[day].strength_sessions
                              ELSE << >>
                       /\ summaries' = summaries
    ]_vars

\* the run is over, a neither entry has been accumulated into a week that
\* also holds a session
C9_Witness ==
  /\ pc = "done"
  /\ \E ex \in AllExercises :
       /\ IsNeither(ex)
       /\ \E wk \in DOMAIN summaries :
            /\ ex.id \in IdsOfWeek(wk)
            /\ summaries[wk].Distance > 0
            /\ summaries[wk].strength_duration > 0

-----------------------------------------------------------------------------
(* C10 *)

\* C10: every week key is a Monday..Sunday pair of one 7-day week and two
\* distinct keys do not overlap; every consumed entry's local date lies in
\* the week of exactly one bucket key, the key stored with its day; and at
\* every point of the third loop the set records of all Exercise_details of
\* a bucket number the accumulated entries of that week, so that at the end
\* the set records of all buckets number the input entries.
C10_WeekBucketsPartitionEntries ==
  LET keys == { workouts_by_date[dt].week_key : dt \in DOMAIN workouts_by_date }
      SetRecords(wk) ==
        SumFn([ name \in DOMAIN summaries[wk].Exercise_details |->
                  Len(summaries[wk].Exercise_details[name].sets) ],
              DOMAIN summaries[wk].Exercise_details)
  IN  /\ \A wk \in keys : wk[1] % 7 = 0 /\ wk[2] = wk[1] + 6
      /\ \A wk \in DOMAIN summaries : wk \in keys
      /\ \A wk1, wk2 \in keys : wk1 # wk2 => (wk1[2] < wk2[1] \/ wk2[2] < wk1[1])
      /\ \A ex \in AllExercises :
           /\ Cardinality({ wk \in keys : ex.id \in IdsOfWeek(wk) }) = 1
           /\ ex.id \in IdsOfWeek(workouts_by_date[LocalDay(ex.id)].week_key)
      /\ \A wk \in DOMAIN summaries :
           SetRecords(wk) = Cardinality(IdsOfWeek(wk) \cap AccumulatedIds)
      /\ pc = "done"
           => SumFn([ wk \in DOMAIN summaries |-> SetRecords(wk) ],
                    DOMAIN summaries) = Len(processed_data)

\* the run is over with three entries in two week buckets
C10_Witness ==
  /\ pc = "done"
  /\ Len(processed_data) = 3
  /\ Cardinality(DOMAIN summaries) = 2


-----------------------------------------------------------------------------
(* aggregate_summaries: week buckets into months or N-week periods *)

\* Day 0 of the model is Monday 2024-01-01.  Days of each month of a common
\* year; 2024 and 2028 are leap years.
MonthLengths == << 31, 28, 31, 30, 31, 30, 31, 31, 30, 31, 30, 31 >>

IsLeap(year) == year % 4 = 0

DaysInMonth(year, month) ==
  IF month = 2 /\ IsLeap(year) THEN 29 ELSE MonthLengths[month]

DaysInYear(year) == IF IsLeap(year) THEN 366 ELSE 365

RECURSIVE MonthAndDay(_, _, _)
MonthAndDay(year, day_of_year, month) ==
  IF day_of_year < DaysInMonth(year, month)
    THEN << year, month, day_of_year + 1 >>
    ELSE MonthAndDay(year, day_of_year - DaysInMonth(year, month), month + 1)

RECURSIVE YearMonthDay(_, _)
YearMonthDay(year, day) ==
  IF day < DaysInYear(year) THEN MonthAndDay(year, day, 1)
  ELSE YearMonthDay(year + 1, day - DaysInYear(year))

\* The fields << year, month, day >> that strptime reads from, and strftime
\* writes to, the text '%Y-%m-%d' of a day.  The fields are zero-padded, so
\* texts compare as these tuples compare.
CalendarDate(day) == YearMonthDay(2024, day)

\* SortByStart keeping the insertion order of summaries
SortByStart_InsertionOrder(weeks) == week_keys

\* sorted(summaries.keys(), key=start date): generator.py:511-514
RECURSIVE SortByStart(_)
SortByStart(weeks) ==
  IF weeks = {} THEN << >>
  ELSE LET first == CHOOSE x \in weeks : \A y \in weeks : x[1] <= y[1]
       IN  << first >> \o SortByStart(weeks \ {first})

\* int(period_type.split('-')[0]): generator.py:531
WeeksNumber(type) ==
  CASE type = "4-weeks" -> 4
    [] type = "8-weeks" -> 8
    [] type = "12-weeks" -> 12
    [] type = "24-weeks" -> 24

\* PeriodStart counting the days from the anchor in units of N days, not of
\* 7 * N days
PeriodStart_DaysNotWeeks(type, week_start, first_week_start) ==
  LET weeks_number == WeeksNumber(type)
      period_number == (week_start - first_week_start) \div weeks_number
  IN  first_week_start + period_number * 7 * weeks_number

\* generator.py:531-534: the first day of the N-week period of a week
PeriodStart(type, week_start, first_week_start) ==
  LET weeks_number == WeeksNumber(type)
      period_number == (week_start - first_week_start) \div (7 * weeks_number)
  IN  first_week_start + period_number * 7 * weeks_number

\* PeriodKey taking the month from the week's Sunday
PeriodKey_ByWeekEnd(type, week_start, first_week_start) ==
  IF type = "monthly"
    THEN SubSeq(CalendarDate(week_start + 6), 1, 2)
    ELSE CalendarDate(PeriodStart(type, week_start, first_week_start))

\* generator.py:526-527, 536: '%Y-%m' of the week's Monday, or '%Y-%m-%d' of
\* the period's first day
PeriodKey(type, week_start, first_week_start) ==
  IF type = "monthly"
    THEN SubSeq(CalendarDate(week_start), 1, 2)
    ELSE CalendarDate(PeriodStart(type, week_start, first_week_start))

\* generator.py:528, 535-537: '%B %Y', or "<first day> to <last day>"
PeriodName(type, week_start, first_week_start) ==
  IF type = "monthly"
    THEN SubSeq(CalendarDate(week_start), 1, 2)
    ELSE LET period_start == PeriodStart(type, week_start, first_week_start)
             period_end == period_start + 7 * WeeksNumber(type) - 1
         IN  << CalendarDate(period_start), CalendarDate(period_end) >>

\* generator.py:540-553
EmptyPeriod(period_name) ==
  [ period_name |-> period_name, weeks |-> << >> ] @@ EmptyBucket

\* generator.py:565-573: the per-exercise totals of a week added to a period's
MergeByExercise(period_map, week_map) ==
  [ name \in DOMAIN period_map \cup DOMAIN week_map |->
      (IF name \in DOMAIN period_map THEN period_map[name] ELSE 0)
        + (IF name \in DOMAIN week_map THEN week_map[name] ELSE 0) ]

\* generator.py:576-577: period['Workouts'][workout_time] = exercises
MergeWorkouts(period_workouts, week_workouts) ==
  [ workout_time \in DOMAIN period_workouts \cup DOMAIN week_workouts |->
      IF workout_time \in DOMAIN week_workouts
        THEN week_workouts[workout_time]
        ELSE period_workouts[workout_time] ]

\* MergeDetails adding the weeks' max_weight up
MergeDetails_SumOfMax(ex_details, details) ==
  [ ex_details EXCEPT
      !.sets = @ \o details.sets,
      !.total_volume = @ + details.total_volume,
      !.max_weight = @ + details.max_weight,
      !.total_reps = @ + details.total_reps,
      !.total_duration = @ + details.total_duration,
      !.working_sets = @ + details.working_sets,
      !.warmup_sets = @ + details.warmup_sets ]

\* generator.py:593-600
MergeDetails(ex_details, details) ==
  [ ex_details EXCEPT
      !.sets = @ \o details.sets,
      !.total_volume = @ + details.total_volume,
      !.max_weight = Max(@, details.max_weight),
      !.total_reps = @ + details.total_reps,
      !.total_duration = @ + details.total_duration,
      !.working_sets = @ + details.working_sets,
      !.warmup_sets = @ + details.warmup_sets ]

\* generator.py:580-600
MergeExerciseDetails(period_details, week_details) ==
  [ name \in DOMAIN period_details \cup DOMAIN week_details |->
      IF name \notin DOMAIN week_details THEN period_details[name]
      ELSE MergeDetails(IF name \in DOMAIN period_details
                          THEN period_details[name]
                          ELSE EmptyDetails(week_details[name].is_cardio),
                        week_details[name]) ]

\* generator.py:555-600: a week bucket added to its period bucket
MergeWeek(period_summary, week, summary) ==
  [ period_summary EXCEPT
      !.weeks = Append(@, week),
      !.cardio_duration = @ + summary.cardio_duration,
      !.strength_duration = @ + summary.strength_duration,
      !.Distance = @ + summary.Distance,
      !.Reps = @ + summary.Reps,
      !.Volume = @ + summary.Volume,
      !.Distance_by_exercise = MergeByExercise(@, summary.Distance_by_exercise),
      !.Volume_by_exercise = MergeByExercise(@, summary.Volume_by_exercise),
      !.Workouts = MergeWorkouts(@, summary.Workouts),
      !.Exercise_details = MergeExerciseDetails(@, summary.Exercise_details) ]

\* generator.py:511-520: aggregate_summaries is called on the finished
\* summaries; with no week it returns {} at once
StartAggregate ==
  /\ pc = "done"
  /\ sorted_weeks' = SortByStart(DOMAIN summaries)
  /\ pos' = 1
  /\ period_summaries' = << >>
  /\ pc' = IF summaries = << >> THEN "end" ELSE "aggregate"
  /\ UNCHANGED << processed_data, use_metric, timezone, i, workouts_by_date,
                  date_keys, d, j, summaries, week_keys, period_type,
                  report_format,
                  overall_summary, previous_summary, report >>

\* generator.py:522-600, one iteration of the loop over sorted_weeks.  When
\* generate_markdown_report made the call (line 815) the report already has
\* its header and goes on with the period sections.
AggregateWeek ==
  /\ pc = "aggregate"
  /\ pos <= Len(sorted_weeks)
  /\ LET week == sorted_weeks[pos]
         week_start == week[1]
         first_week_start == sorted_weeks[1][1]
         period_key == PeriodKey(period_type, week_start, first_week_start)
         period_name == PeriodName(period_type, week_start, first_week_start)
         period_summary ==
           IF period_key \in DOMAIN period_summaries
             THEN period_summaries[period_key]
             ELSE EmptyPeriod(period_name)
     IN  period_summaries' =
           (period_key :> MergeWeek(period_summary, week, summaries[week]))
             @@ period_summaries
  /\ pos' = pos + 1
  /\ pc' = IF pos < Len(sorted_weeks) THEN "aggregate"
           ELSE IF report = << >> THEN "end" ELSE "period_title"
  /\ UNCHANGED << processed_data, use_metric, timezone, i, workouts_by_date,
                  date_keys, d, j, summaries, week_keys, period_type,
                  report_format,
                  sorted_weeks, overall_summary, previous_summary, report >>

\* The period types aggregate_summaries tells apart.
PeriodTypes == {"monthly", "4-weeks", "8-weeks", "12-weeks", "24-weeks"}

\* Noon of Friday 2024-02-02 (week of Monday 01-29), of Saturday 2024-03-02
\* (week of Monday 02-26) and of Monday 2024-06-17: 4, 8 and 24 weeks after
\* the week of WednesdayNoon (2024-01-03).
FebruaryFriday == 32 * 86400 + 43200
MarchSaturday == 61 * 86400 + 43200
JuneMonday == 168 * 86400 + 43200

\* a weighted carry over a distance: 5 x 10 kg, 400 m
FarmerCarry ==
  [Exercise |-> "Carry", Reps |-> 5, Weight |-> 1000, Distance |-> 400,
   Duration |-> 0, isWarmup |-> "false"]

PeriodEntries ==
  At({WednesdayNoon, FebruaryFriday, JuneMonday}, {BenchSet})
    \cup At({MarchSaturday}, {BenchWarmup})
    \cup At({FebruaryFriday, MarchSaturday}, {FarmerCarry})
    \cup At({WednesdayNoon}, {RunTimed})

InitPeriods ==
  /\ processed_data \in SeqsUpTo(PeriodEntries, MaxLen)
  /\ use_metric \in BOOLEAN
  /\ timezone = 0
  /\ pc = IF processed_data = << >> THEN "done" ELSE "ingest"
  /\ i = 1
  /\ workouts_by_date = << >>
  /\ date_keys = << >>
  /\ d = 1
  /\ j = 1
  /\ summaries = << >>
  /\ week_keys = << >>
  /\ ReportInit(PeriodTypes, {"summary"})

NextPeriods ==
  Ingest \/ SessionDurations \/ AccumulateExercise \/ StartAggregate
    \/ AggregateWeek

\* summarize_by_week, then aggregate_summaries on its result
SpecPeriods == InitPeriods /\ [][NextPeriods]_vars


-----------------------------------------------------------------------------
(* Vocabulary of the properties about periods *)

\* the week keys a period bucket lists
WeeksOf(period_key) == Range(period_summaries[period_key].weeks)

\* the sum of one field of the week buckets of a set of weeks
SumOfWeeks(weeks, field) ==
  SumFn([ wk \in weeks |-> summaries[wk][field] ], weeks)

SumOfMap(map) == SumFn(map, DOMAIN map)

\* the weeks of a period whose bucket has details of an exercise
WeeksWith(period_key, name) ==
  { wk \in WeeksOf(period_key) : name \in DOMAIN summaries[wk].Exercise_details }

SumOfDetails(weeks, name, field) ==
  SumFn([ wk \in weeks |-> summaries[wk].Exercise_details[name][field] ], weeks)

\* the places << period, position >> where a week is listed
Placements(wk) ==
  { pl \in (DOMAIN period_summaries) \X (1 .. MaxLen + 1) :
      /\ pl[2] <= Len(period_summaries[pl[1]].weeks)
      /\ period_summaries[pl[1]].weeks[pl[2]] = wk }

\* the number of per-set records of a Workouts timeline
RecordCount(workouts) ==
  SumFn([ t \in DOMAIN workouts |-> Len(workouts[t]) ], DOMAIN workouts)

-----------------------------------------------------------------------------
(* C11 *)

\* C11: in every week bucket and in every period bucket the values of
\* Distance_by_exercise sum to Distance and the values of Volume_by_exercise
\* sum to Volume (all inputs of the model are non-negative).
C11_ByExerciseSumsToTotal ==
  /\ \A wk \in DOMAIN summaries :
       /\ SumOfMap(summaries[wk].Distance_by_exercise) = summaries[wk].Distance
       /\ SumOfMap(summaries[wk].Volume_by_exercise) = summaries[wk].Volume
  /\ \A pk \in DOMAIN period_summaries :
       /\ SumOfMap(period_summaries[pk].Distance_by_exercise)
            = period_summaries[pk].Distance
       /\ SumOfMap(period_summaries[pk].Volume_by_exercise)
            = period_summaries[pk].Volume

\* a finished period of two weeks with two exercises in each breakdown
C11_Witness ==
  /\ pc = "end"
  /\ \E pk \in DOMAIN period_summaries :
       /\ Len(period_summaries[pk].weeks) >= 2
       /\ Cardinality(DOMAIN period_summaries[pk].Distance_by_exercise) >= 2
       /\ Cardinality(DOMAIN period_summaries[pk].Volume_by_exercise) >= 2
       /\ period_summaries[pk].Distance > 0
       /\ period_summaries[pk].Volume > 0

-----------------------------------------------------------------------------
(* C12 *)

\* C12: every numeric total of a period bucket is the sum of that total over
\* the week buckets the period lists in 'weeks', per-exercise totals
\* included, and an exercise's max_weight is the maximum over those weeks.
C12_PeriodTotalsAreSumsOfWeeks ==
  \A pk \in DOMAIN period_summaries :
    LET period == period_summaries[pk]
        weeks == WeeksOf(pk)
    IN  /\ Cardinality(weeks) = Len(period.weeks)
        /\ period.cardio_duration = SumOfWeeks(weeks, "cardio_duration")
        /\ period.strength_duration = SumOfWeeks(weeks, "strength_duration")
        /\ period.Distance = SumOfWeeks(weeks, "Distance")
        /\ period.Reps = SumOfWeeks(weeks, "Reps")
        /\ period.Volume = SumOfWeeks(weeks, "Volume")
        /\ DOMAIN period.Exercise_details
             = UNION { DOMAIN summaries[wk].Exercise_details : wk \in weeks }
        /\ \A name \in DOMAIN period.Exercise_details :
             LET details == period.Exercise_details[name]
                 having == WeeksWith(pk, name)
             IN  /\ details.total_volume = SumOfDetails(having, name, "total_volume")
                 /\ details.total_reps = SumOfDetails(having, name, "total_reps")
                 /\ details.total_duration
                      = SumOfDetails(having, name, "total_duration")
                 /\ details.working_sets = SumOfDetails(having, name, "working_sets")
                 /\ details.warmup_sets = SumOfDetails(having, name, "warmup_sets")
                 /\ \E wk \in having :
                      details.max_weight
                        = summaries[wk].Exercise_details[name].max_weight
                 /\ \A wk \in having :
                      details.max_weight
                        >= summaries[wk].Exercise_details[name].max_weight

\* a finished period of two weeks that both hold an exercise, the later week
\* with the smaller max_weight
C12_Witness ==
  /\ pc = "end"
  /\ \E pk \in DOMAIN period_summaries :
       \E name \in DOMAIN period_summaries[pk].Exercise_details :
         \E wk1, wk2 \in WeeksWith(pk, name) :
           /\ wk1[1] < wk2[1]
           /\ summaries[wk1].Exercise_details[name].max_weight
                > summaries[wk2].Exercise_details[name].max_weight
           /\ summaries[wk2].Exercise_details[name].max_weight > 0
           /\ period_summaries[pk].cardio_duration > 0

-----------------------------------------------------------------------------
(* C13 *)

\* C13: in monthly mode no week is listed twice, a finished aggregation lists
\* every week once, and the period that lists a week is the calendar month of
\* the week's Monday.
C13_MonthOfMonday ==
  period_type = "monthly" =>
    \A wk \in DOMAIN summaries :
      /\ Cardinality(Placements(wk)) <= 1
      /\ pc = "end" => Cardinality(Placements(wk)) = 1
      /\ \A pl \in Placements(wk) :
           pl[1] = SubSeq(CalendarDate(wk[1]), 1, 2)

\* a finished monthly aggregation with a week whose Sunday lies in the next
\* month and that shares its period with another week
C13_Witness ==
  /\ pc = "end"
  /\ period_type = "monthly"
  /\ \E pk \in DOMAIN period_summaries : \E wk \in WeeksOf(pk) :
       /\ CalendarDate(wk[1])[2] # CalendarDate(wk[2])[2]
       /\ Len(period_summaries[pk].weeks) >= 2

-----------------------------------------------------------------------------
(* C14 *)

\* the Monday of the earliest week bucket
Anchor == CHOOSE a \in { wk[1] : wk \in DOMAIN summaries } :
            \A wk \in DOMAIN summaries : a <= wk[1]

\* C14: in N-weeks mode a week that starts k days after the earliest week's
\* Monday is listed once, by the period of index k div (7 * N); that period's
\* window starts index * 7 * N days after the anchor, covers 7 * N days (N
\* whole week slots counted from the anchor) and contains the week.
C14_WindowsFromAnchor ==
  period_type \in {"4-weeks", "8-weeks", "12-weeks", "24-weeks"} =>
    \A wk \in DOMAIN summaries :
      /\ Cardinality(Placements(wk)) <= 1
      /\ pc = "end" => Cardinality(Placements(wk)) = 1
      /\ \A pl \in Placements(wk) :
           LET weeks_in_period ==
                 CASE period_type = "4-weeks" -> 4
                   [] period_type = "8-weeks" -> 8
                   [] period_type = "12-weeks" -> 12
                   [] period_type = "24-weeks" -> 24
               index == (wk[1] - Anchor) \div (7 * weeks_in_period)
               window_start == Anchor + index * 7 * weeks_in_period
               window_end == window_start + 7 * weeks_in_period - 1
           IN  /\ pl[1] = CalendarDate(window_start)
               /\ period_summaries[pl[1]].period_name
                    = << CalendarDate(window_start), CalendarDate(window_end) >>
               /\ window_start <= wk[1] /\ wk[2] <= window_end
               /\ (wk[1] - window_start) % 7 = 0

\* a finished N-weeks aggregation with a period that is not the first and a
\* period of two weeks
C14_Witness ==
  /\ pc = "end"
  /\ period_type \in {"4-weeks", "8-weeks", "12-weeks", "24-weeks"}
  /\ \E pk \in DOMAIN period_summaries : pk # CalendarDate(Anchor)
  /\ \E pk \in DOMAIN period_summaries : Len(period_summaries[pk].weeks) >= 2

-----------------------------------------------------------------------------
(* C15 *)

\* C15: no timeline key of one week bucket is a key of another week bucket,
\* and the number of per-set records of a period's Workouts is the sum of the
\* numbers of per-set records of the weeks it lists.
C15_TimelineKeysApart ==
  /\ \A wk1, wk2 \in DOMAIN summaries :
       wk1 # wk2 =>
         DOMAIN summaries[wk1].Workouts \cap DOMAIN summaries[wk2].Workouts = {}
  /\ \A pk \in DOMAIN period_summaries :
       RecordCount(period_summaries[pk].Workouts)
         = SumFn([ wk \in WeeksOf(pk) |-> RecordCount(summaries[wk].Workouts) ],
                 WeeksOf(pk))

\* a finished period of two weeks with sets at the same time of day
C15_Witness ==
  /\ pc = "end"
  /\ \E pk \in DOMAIN period_summaries : \E wk1, wk2 \in WeeksOf(pk) :
       /\ wk1 # wk2
       /\ \E t1 \in DOMAIN summaries[wk1].Workouts :
            \E t2 \in DOMAIN summaries[wk2].Workouts : t1 % 1440 = t2 % 1440


-----------------------------------------------------------------------------
(* generate_markdown_report and generate_period_summary.  The report is    *)
(* the sequence of its sections; a section holds what its lines print,      *)
(* numbers as they are formatted.                                           *)

\* converters.py:3-22, on the number num / den: negative numbers print as
\* zero, the rest as << hours, minutes, seconds >> with the fraction dropped
seconds_to_time(num, den) ==
  LET seconds == IF num < 0 THEN 0 ELSE num \div den
  IN  << seconds \div 3600, (seconds % 3600) \div 60, seconds % 60 >>

\* f"{x:.2f}" of x = (value / scale) / count, as a number of hundredths
FormatTwoDecimals(value, scale, count) ==
  IF scale >= 100 THEN RoundHalfEven(value, (scale \div 100) * count)
  ELSE RoundHalfEven(value * (100 \div scale), count)

\* scale of a converted distance (generator.py:481-482)
DistanceScale(metric) == IF metric THEN 100000000 ELSE 1000000000

RECURSIVE GCD(_, _)
GCD(a, b) == IF b = 0 THEN a ELSE GCD(b, a % b)

\* PercentChange without the subtraction: current / previous * 100
PercentChange_Ratio(current, previous) ==
  LET divisor == GCD(current, previous)
  IN  RoundHalfEven((current \div divisor) * 10000, previous \div divisor)

\* f"{(current - previous) / previous * 100:.2f}", in hundredths of a percent
\* (the fraction is reduced first to keep the product small)
PercentChange(current, previous) ==
  LET divisor == GCD(Abs(current - previous), previous)
  IN  RoundHalfEven(((current - previous) \div divisor) * 10000,
                    previous \div divisor)

\* A line that is not printed is << >>, a printed figure is << figure >>.
NoLine == << >>

Section(kind, name) ==
  [ kind |-> kind, name |-> name, daily_workouts |-> << >>,
    exercise_details |-> << >>, distance_by_exercise |-> << >>,
    volume_by_exercise |-> << >>, statistics |-> << >>,
    distance_change |-> NoLine, volume_change |-> NoLine, averages |-> NoLine ]

\* generator.py:883-893, 677-687, 931-942: the two breakdowns of a bucket
Breakdowns(section, summary, metric) ==
  [ section EXCEPT
      !.distance_by_exercise =
         [ name \in DOMAIN summary.Distance_by_exercise |->
             FormatTwoDecimals(summary.Distance_by_exercise[name],
                               DistanceScale(metric), 1) ],
      !.volume_by_exercise =
         [ name \in DOMAIN summary.Volume_by_exercise |->
             FormatTwoDecimals(summary.Volume_by_exercise[name],
                               WeightScale(metric), 1) ] ]

\* generator.py:896-911, 690-702, 945-957: the statistics lines, of the
\* totals divided by count (count = 1 but for the averages)
Statistics(summary, metric, count) ==
  [ total_time |->
      seconds_to_time(summary.cardio_duration + summary.strength_duration, count),
    strength_time |-> seconds_to_time(summary.strength_duration, count),
    cardio_time |-> seconds_to_time(summary.cardio_duration, count),
    distance |-> FormatTwoDecimals(summary.Distance, DistanceScale(metric), count),
    reps |-> summary.Reps \div count,
    volume |-> FormatTwoDecimals(summary.Volume, WeightScale(metric), count) ]

\* generator.py:914-922: the week-over-week lines
WeekChanges(section, summary, previous) ==
  IF previous = << >> THEN section
  ELSE [ section EXCEPT
           !.distance_change =
              << IF previous.Distance # 0
                   THEN PercentChange(summary.Distance, previous.Distance)
                   ELSE 0 >>,
           !.volume_change =
              << IF previous.Volume # 0
                   THEN PercentChange(summary.Volume, previous.Volume)
                   ELSE 0 >> ]

\* generator.py:705-715: the period-over-period lines
PeriodChanges(section, summary, previous) ==
  IF previous = << >> THEN section
  ELSE [ section EXCEPT
           !.distance_change =
              IF previous.Distance # 0
                THEN << PercentChange(summary.Distance, previous.Distance) >>
                ELSE NoLine,
           !.volume_change =
              IF previous.Volume # 0
                THEN << PercentChange(summary.Volume, previous.Volume) >>
                ELSE NoLine ]

\* The exercise names of the model in the order of Python's sorted().
NameOrder == << "Bench", "Carry", "Plank", "Press", "Run", "Sample" >>

\* sorted(names)
SortedNames(names) ==
  LET Listed(name) == name \in names
  IN  SelectSeq(NameOrder, Listed)

\* sorted(numbers)
RECURSIVE SortedNumbers(_)
SortedNumbers(numbers) ==
  IF numbers = {} THEN << >>
  ELSE LET first == CHOOSE x \in numbers : \A y \in numbers : x <= y
       IN  << first >> \o SortedNumbers(numbers \ {first})

\* the elements of a sequence, each at the place of its first occurrence
RECURSIVE Distinct(_)
Distinct(seq) ==
  IF seq = << >> THEN << >>
  ELSE LET front == Distinct(SubSeq(seq, 1, Len(seq) - 1))
           last == seq[Len(seq)]
       IN  IF \E k \in DOMAIN front : front[k] = last THEN front
           ELSE Append(front, last)

RECURSIVE Concat(_)
Concat(seqs) ==
  IF seqs = << >> THEN << >> ELSE Head(seqs) \o Concat(Tail(seqs))

\* The keys of a week's 'Workouts' in insertion order: the third loop of
\* summarize_by_week (414-439) takes the days in the order of
\* workouts_by_date and the entries of a day in arrival order.
WorkoutTimesInOrder(week, by_date, dates) ==
  LET OfWeek(date) == by_date[date].week_key = week
      days == SelectSeq(dates, OfWeek)
  IN  Distinct(Concat([ a \in DOMAIN days |->
                          [ b \in DOMAIN by_date[days[a]].exercises |->
                              WorkoutTimeOf(by_date[days[a]].exercises[b]
                                              .local_datetime) ] ]))

\* workout_time.split()[0] of a key of 'Workouts': the local day number
DatePart(workout_time) == workout_time \div 1440

\* scale of the weight of a display record (generator.py:425)
DisplayWeightScale(metric) == IF metric THEN 100000000 ELSE 2

\* f"{x:.1f}" of x = value / scale, as a number of tenths
FormatOneDecimal(value, scale) ==
  IF scale >= 10 THEN RoundHalfEven(value, scale \div 10)
  ELSE RoundHalfEven(value * (10 \div scale), 1)

\* generator.py:639-646, 849-856: the table of one exercise name, a row for
\* each of exercise_sets
SetsTable(exercise_name, exercise_sets, metric) ==
  [ exercise |-> exercise_name,
    count |-> Len(exercise_sets),
    rows |-> [ k \in DOMAIN exercise_sets |->
                 [ reps |-> exercise_sets[k].reps,
                   weight |-> FormatOneDecimal(exercise_sets[k].weight,
                                               DisplayWeightScale(metric)),
                   weight_unit |-> exercise_sets[k].weight_unit,
                   type |-> IF exercise_sets[k].is_warmup THEN "Warmup"
                            ELSE "Working" ] ] ]

\* the records of a list that carry the name
NamedRecords(records, exercise_name) ==
  LET Named(record) == record.exercise = exercise_name
  IN  SelectSeq(records, Named)

\* generator.py:747-756: exercise_data[week]['by_date'][date], the records
\* of a local date by exercise name, the keys of 'Workouts' taken in
\* insertion order
RecordsByDate(workouts, workout_times, date) ==
  LET OfDate(workout_time) == DatePart(workout_time) = date
      times == SelectSeq(workout_times, OfDate)
      records == Concat([ k \in DOMAIN times |-> workouts[times[k]] ])
  IN  [ exercise_name \in { records[k].exercise : k \in DOMAIN records } |->
          NamedRecords(records, exercise_name) ]

\* generator.py:841-856, the part of one workout_date.  The three appends
\* and the loop over exercise_sets (849-856) stand after the loop over the
\* sorted names (846-847), one indentation level out of it: they run once
\* per date, with the exercise_name and exercise_sets the loop has left,
\* those of the last name.
DayOfWeekSection(workout_date, by_name, metric) ==
  LET names == SortedNames(DOMAIN by_name)
      exercise_name == names[Len(names)]
      exercise_sets == by_name[exercise_name]
  IN  [ date |-> workout_date,
        tables |-> << SetsTable(exercise_name, exercise_sets, metric) >> ]

\* generator.py:841-856: "### Daily Workouts" of a week
WeekDailyWorkouts(summary, workout_times, metric) ==
  LET dates == SortedNumbers({ DatePart(workout_time) :
                                 workout_time \in DOMAIN summary.Workouts })
  IN  [ k \in DOMAIN dates |->
          DayOfWeekSection(dates[k],
                           RecordsByDate(summary.Workouts, workout_times,
                                         dates[k]),
                           metric) ]

\* generator.py:625-647: "### Daily Workouts" of a period, a heading and the
\* tables of all names for each key of 'Workouts'
PeriodDailyWorkouts(period_summary, metric) ==
  LET times == SortedNumbers(DOMAIN period_summary.Workouts)
  IN  [ k \in DOMAIN times |->
          LET records == period_summary.Workouts[times[k]]
              names == SortedNames({ records[n].exercise :
                                       n \in DOMAIN records })
          IN  [ date |-> DatePart(times[k]),
                tables |-> [ n \in DOMAIN names |->
                               SetsTable(names[n],
                                         NamedRecords(records, names[n]),
                                         metric) ] ] ]

\* SortSets that leaves the sets in the order they were recorded
SortSets_InsertionOrder(sets) == sets

\* sorted(details['sets'], key=lambda x: (x['is_warmup'], -x['weight'])) of
\* generator.py:669 and 768: working sets first, heavier sets first, sets of
\* equal key in the order they have (the sort is stable)
RECURSIVE SortSets(_)
SortSets(sets) ==
  IF sets = << >> THEN << >>
  ELSE LET Before(a, b) ==
             \/ ~a.is_warmup /\ b.is_warmup
             \/ a.is_warmup = b.is_warmup /\ a.weight > b.weight
           first == CHOOSE k \in DOMAIN sets :
                      /\ \A n \in DOMAIN sets : ~Before(sets[n], sets[k])
                      /\ \A n \in 1 .. (k - 1) : Before(sets[k], sets[n])
           rest == [ n \in 1 .. (Len(sets) - 1) |->
                       IF n < first THEN sets[n] ELSE sets[n + 1] ]
       IN  << sets[first] >> \o SortSets(rest)

\* generator.py:649-674, 859-880: "### Exercise Details", for each name in
\* sorted order its figures and its Set Progression table, a row for each
\* of sorted_sets
ExerciseDetailsLines(exercise_details, sorted_sets, metric) ==
  LET names == SortedNames(DOMAIN exercise_details)
  IN  [ k \in DOMAIN names |->
          LET details == exercise_details[names[k]]
              sets == sorted_sets[names[k]]
          IN  [ exercise |-> names[k],
                working_sets |-> details.working_sets,
                warmup_sets |-> details.warmup_sets,
                total_reps |-> details.total_reps,
                total_duration |->
                  IF details.is_cardio
                    THEN << seconds_to_time(details.total_duration, 1) >>
                    ELSE NoLine,
                max_weight |-> FormatOneDecimal(details.max_weight,
                                                WeightScale(metric)),
                total_volume |-> FormatOneDecimal(details.total_volume,
                                                  WeightScale(metric)),
                set_progression |->
                  [ n \in DOMAIN sets |->
                      [ weight |-> FormatOneDecimal(sets[n].weight,
                                                    WeightScale(metric)),
                        reps |-> sets[n].reps,
                        type |-> IF sets[n].is_warmup THEN "Warmup"
                                 ELSE "Working" ] ] ] ]

\* generator.py:758-769: exercise_data[week]['details'], the sets sorted
\* before the report is written (768)
PreprocessedSets(exercise_details) ==
  [ name \in DOMAIN exercise_details |-> SortSets(exercise_details[name].sets) ]

\* generator.py:839-893: the part of a week section that depends on
\* report_format
WeekBody(section, summary, workout_times, metric, format) ==
  IF format = "detailed"
    THEN [ section EXCEPT
             !.daily_workouts = WeekDailyWorkouts(summary, workout_times, metric),
             !.exercise_details =
                ExerciseDetailsLines(summary.Exercise_details,
                                     PreprocessedSets(summary.Exercise_details),
                                     metric) ]
    ELSE Breakdowns(section, summary, metric)

\* generator.py:623-687: the part of a period section that depends on
\* report_format; the sets are sorted as the table is written (669)
PeriodBody(section, period_summary, metric, format) ==
  IF format = "detailed"
    THEN [ section EXCEPT
             !.daily_workouts = PeriodDailyWorkouts(period_summary, metric),
             !.exercise_details =
                ExerciseDetailsLines(
                  period_summary.Exercise_details,
                  [ name \in DOMAIN period_summary.Exercise_details |->
                      SortSets(period_summary.Exercise_details[name].sets) ],
                  metric) ]
    ELSE Breakdowns(section, period_summary, metric)

\* generator.py:837-924: "## Week: {week}" and what follows it
WeekSectionOf(week, summary, previous, metric, workout_times, format) ==
  WeekChanges([ WeekBody(Section("bucket", week), summary, workout_times,
                         metric, format) EXCEPT
                  !.statistics = Statistics(summary, metric, 1) ],
              summary, previous)

\* generator.py:617-718: "## {period_name}" and what follows it
generate_period_summary(period_name, period_summary, metric, previous, format) ==
  PeriodChanges([ PeriodBody(Section("bucket", period_name), period_summary,
                             metric, format) EXCEPT
                    !.statistics = Statistics(period_summary, metric, 1) ],
                period_summary, previous)

\* generator.py:772-782
EmptyOverall ==
  [ cardio_duration |-> 0, strength_duration |-> 0, Distance |-> 0,
    Reps |-> 0, Volume |-> 0, Distance_by_exercise |-> << >>,
    Volume_by_exercise |-> << >>, start_date |-> << >>, end_date |-> << >> ]

\* generator.py:794-811
RECURSIVE AddWeeks(_, _)
AddWeeks(overall, weeks) ==
  IF weeks = << >> THEN overall
  ELSE LET summary == summaries[Head(weeks)]
       IN  AddWeeks([ overall EXCEPT
                        !.cardio_duration = @ + summary.cardio_duration,
                        !.strength_duration = @ + summary.strength_duration,
                        !.Distance = @ + summary.Distance,
                        !.Reps = @ + summary.Reps,
                        !.Volume = @ + summary.Volume,
                        !.Distance_by_exercise =
                           MergeByExercise(@, summary.Distance_by_exercise),
                        !.Volume_by_exercise =
                           MergeByExercise(@, summary.Volume_by_exercise) ],
                    Tail(weeks))

\* generator.py:788-811
OverallSummary(weeks) ==
  IF weeks = << >> THEN EmptyOverall
  ELSE AddWeeks([ EmptyOverall EXCEPT
                    !.start_date = << CalendarDate(weeks[1][1]) >>,
                    !.end_date = << CalendarDate(weeks[Len(weeks)][2]) >> ],
                weeks)

\* OverallSectionOf dividing by the number of sections of buckets written
OverallSectionOf_PerBucket(overall, metric, num_weeks) ==
  LET num_buckets == Cardinality({ k \in DOMAIN report : report[k].kind = "bucket" })
  IN  [ Breakdowns(Section("overall", << overall.start_date, overall.end_date >>),
                   overall, metric) EXCEPT
          !.statistics = Statistics(overall, metric, 1),
          !.averages = IF num_buckets > 0
                         THEN << Statistics(overall, metric, num_buckets) >>
                         ELSE NoLine ]

\* generator.py:928-968: the overall summary and the "Weekly Averages"
OverallSectionOf(overall, metric, num_weeks) ==
  [ Breakdowns(Section("overall", << overall.start_date, overall.end_date >>),
               overall, metric) EXCEPT
      !.statistics = Statistics(overall, metric, 1),
      !.averages = IF num_weeks > 0
                     THEN << Statistics(overall, metric, num_weeks) >>
                     ELSE NoLine ]

\* tuples of numbers in the order of their zero-padded texts
LexLess(a, b) ==
  \E k \in 1 .. Len(a) :
    /\ k <= Len(b)
    /\ a[k] < b[k]
    /\ \A h \in 1 .. (k - 1) : a[h] = b[h]

\* sorted(period_summaries.keys()): generator.py:816
RECURSIVE SortKeys(_)
SortKeys(keys) ==
  IF keys = {} THEN << >>
  ELSE LET first == CHOOSE x \in keys : \A y \in keys \ {x} : LexLess(x, y)
       IN  << first >> \o SortKeys(keys \ {first})

sorted_periods == SortKeys(DOMAIN period_summaries)

\* generator.py:732-814 and 833-834: the header, the overall totals and the
\* choice of what to write next
StartReport ==
  /\ pc = "done"
  /\ report' = << Section("header", << >>) >>
  /\ sorted_weeks' = SortByStart(DOMAIN summaries)
  /\ overall_summary' = OverallSummary(sorted_weeks')
  /\ period_summaries' = << >>
  /\ previous_summary' = << >>
  /\ pos' = 1
  /\ pc' = IF period_type # "None" /\ period_type # "weekly"
             THEN IF summaries = << >> THEN "period_title" ELSE "aggregate"
           ELSE IF period_type = "weekly" /\ summaries # << >>
             THEN "week_sections"
           ELSE "overall_section"
  /\ UNCHANGED << processed_data, use_metric, timezone, i, workouts_by_date,
                  date_keys, d, j, summaries, week_keys, period_type,
                  report_format >>

\* generator.py:816-819: "# {period_type.title()} Summary"
PeriodTitle ==
  /\ pc = "period_title"
  /\ report' = Append(report, Section("title", << period_type >>))
  /\ previous_summary' = << >>
  /\ pos' = 1
  /\ pc' = IF period_summaries = << >> THEN "overall_section"
           ELSE "period_sections"
  /\ UNCHANGED << processed_data, use_metric, timezone, i, workouts_by_date,
                  date_keys, d, j, summaries, week_keys, period_type,
                  report_format,
                  sorted_weeks, period_summaries, overall_summary >>

\* generator.py:820-830, one iteration
PeriodSection ==
  /\ pc = "period_sections"
  /\ pos <= Len(sorted_periods)
  /\ LET period_summary == period_summaries[sorted_periods[pos]]
     IN  /\ report' = Append(report,
                             generate_period_summary(period_summary.period_name,
                                                     period_summary, use_metric,
                                                     previous_summary,
                                                     report_format))
         /\ previous_summary' = period_summary
  /\ pos' = pos + 1
  /\ pc' = IF pos < Len(sorted_periods) THEN "period_sections"
           ELSE "overall_section"
  /\ UNCHANGED << processed_data, use_metric, timezone, i, workouts_by_date,
                  date_keys, d, j, summaries, week_keys, period_type,
                  report_format,
                  sorted_weeks, period_summaries, overall_summary >>

\* generator.py:835-925, one iteration
WeekSection ==
  /\ pc = "week_sections"
  /\ pos <= Len(sorted_weeks)
  /\ LET week == sorted_weeks[pos]
         summary == summaries[week]
     IN  /\ report' = Append(report,
                             WeekSectionOf(week, summary, previous_summary,
                                           use_metric,
                                           WorkoutTimesInOrder(
                                             week, workouts_by_date, date_keys),
                                           report_format))
         /\ previous_summary' = summary
  /\ pos' = pos + 1
  /\ pc' = IF pos < Len(sorted_weeks) THEN "week_sections"
           ELSE "overall_section"
  /\ UNCHANGED << processed_data, use_metric, timezone, i, workouts_by_date,
                  date_keys, d, j, summaries, week_keys, period_type,
                  report_format,
                  sorted_weeks, period_summaries, overall_summary >>

\* generator.py:928-970
OverallSection ==
  /\ pc = "overall_section"
  /\ report' = Append(report, OverallSectionOf(overall_summary, use_metric,
                                               Len(sorted_weeks)))
  /\ pc' = "end"
  /\ UNCHANGED << processed_data, use_metric, timezone, i, workouts_by_date,
                  date_keys, d, j, summaries, week_keys, period_type,
                  report_format,
                  sorted_weeks, pos, period_summaries, overall_summary,
                  previous_summary >>

\* The period modes of a report; "None" is the default of the argument.
ReportPeriodTypes == PeriodTypes \cup {"weekly", "None"}

\* 25 x 40 kg and 25 x 44 kg: volumes of 1000 and 1100 kg*reps
Press1000 ==
  [Exercise |-> "Press", Reps |-> 25, Weight |-> 4000, Distance |-> 0,
   Duration |-> 0, isWarmup |-> "false"]
Press1100 ==
  [Exercise |-> "Press", Reps |-> 25, Weight |-> 4400, Distance |-> 0,
   Duration |-> 0, isWarmup |-> "false"]
\* a longer run (cardio)
LongRun ==
  [Exercise |-> "Run", Reps |-> 0, Weight |-> 0, Distance |-> 500,
   Duration |-> 900, isWarmup |-> "false"]

ReportEntries ==
  At({WednesdayNoon}, {Press1000, RunTimed})
    \cup At({FebruaryFriday, MarchSaturday}, {Press1100, LongRun})

InitReport ==
  /\ processed_data \in SeqsUpTo(ReportEntries, MaxLen)
  /\ use_metric \in BOOLEAN
  /\ timezone = 0
  /\ pc = IF processed_data = << >> THEN "done" ELSE "ingest"
  /\ i = 1
  /\ workouts_by_date = << >>
  /\ date_keys = << >>
  /\ d = 1
  /\ j = 1
  /\ summaries = << >>
  /\ week_keys = << >>
  /\ ReportInit(ReportPeriodTypes, {"summary"})

NextReport ==
  Ingest \/ SessionDurations \/ AccumulateExercise \/ StartReport
    \/ AggregateWeek \/ PeriodTitle \/ PeriodSection \/ WeekSection
    \/ OverallSection

\* summarize_by_week, then generate_markdown_report on its result
SpecReport == InitReport /\ [][NextReport]_vars

\* a quarter of an hour after WednesdayNoon
WednesdayLater == 2 * 86400 + 44100

\* Rows for the detailed report: a day with three exercise names, one of
\* them with a working set and a lighter warm-up set at another time of the
\* day, and a day of another month.
DetailedEntries ==
  At({WednesdayNoon}, {BenchSet, Press1000, RunTimed})
    \cup At({WednesdayLater}, {BenchWarmup})
    \cup At({FebruaryFriday}, {Press1000})

InitDetailed ==
  /\ processed_data \in SeqsUpTo(DetailedEntries, MaxLen)
  /\ use_metric \in BOOLEAN
  /\ timezone = 0
  /\ pc = IF processed_data = << >> THEN "done" ELSE "ingest"
  /\ i = 1
  /\ workouts_by_date = << >>
  /\ date_keys = << >>
  /\ d = 1
  /\ j = 1
  /\ summaries = << >>
  /\ week_keys = << >>
  /\ ReportInit({"weekly", "monthly"}, {"detailed"})

\* summarize_by_week, then generate_markdown_report(report_format='detailed')
SpecDetailed == InitDetailed /\ [][NextReport]_vars


-----------------------------------------------------------------------------
(* Vocabulary of the properties about the report *)

\* the positions of the sections of buckets
BucketSections == { k \in DOMAIN report : report[k].kind = "bucket" }

OverallSections == { k \in DOMAIN report : report[k].kind = "overall" }

\* the buckets of the requested mode, by the name their section is headed
\* with: week keys, or period names
BucketNames ==
  IF period_type \in {"weekly", "None"} THEN DOMAIN summaries
  ELSE { period_summaries[pk].period_name : pk \in DOMAIN period_summaries }

\* the bucket a section of the report was written from
BucketOfSection(k) ==
  IF period_type = "weekly" THEN summaries[report[k].name]
  ELSE period_summaries[CHOOSE pk \in DOMAIN period_summaries :
                          period_summaries[pk].period_name = report[k].name]

\* the first day of the bucket of a section, as << year, month, day >>, or
\* << year, month >> of a month
StartOfSection(k) ==
  IF period_type = "weekly" THEN CalendarDate(report[k].name[1])
  ELSE IF period_type = "monthly" THEN report[k].name
  ELSE report[k].name[1]

\* figure is (current - previous) / previous * 100 to the nearest hundredth
IsChangeFigure(figure, current, previous) ==
  LET divisor == GCD(previous, Abs(current - previous))
      numerator == ((current - previous) \div divisor) * 10000
      denominator == previous \div divisor
  IN  2 * Abs(figure * denominator - numerator) <= denominator

\* the totals over all week buckets
TotalsOfWeeks ==
  [ cardio_duration |-> SumOfWeeks(DOMAIN summaries, "cardio_duration"),
    strength_duration |-> SumOfWeeks(DOMAIN summaries, "strength_duration"),
    Distance |-> SumOfWeeks(DOMAIN summaries, "Distance"),
    Reps |-> SumOfWeeks(DOMAIN summaries, "Reps"),
    Volume |-> SumOfWeeks(DOMAIN summaries, "Volume") ]

-----------------------------------------------------------------------------
(* C16 *)

\* C16: in every period mode, the default (none) included, the finished
\* report is the header, one section for each bucket (each week bucket when
\* the mode is weekly or not given, each period otherwise) and, after them
\* and last, exactly one overall summary.
C16_OneSectionPerBucket ==
  (pc = "end" /\ report # << >>) =>
    /\ report[1].kind = "header"
    /\ Cardinality(BucketSections) = Cardinality(BucketNames)
    /\ \A name \in BucketNames :
         \E k \in BucketSections : report[k].name = name
    /\ OverallSections = { Len(report) }

-----------------------------------------------------------------------------
(* C17 *)

\* C17: the sections of buckets stand in chronological order of the first
\* day of their bucket, whatever the order of the input and the insertion
\* order of summaries.
C17_SectionsChronological ==
  \A a, b \in BucketSections :
    a < b => LexLess(StartOfSection(a), StartOfSection(b))

\* a finished report of two or more buckets, from summaries whose insertion
\* order is not the chronological one
C17_Witness ==
  /\ pc = "end"
  /\ Cardinality(BucketSections) >= 2
  /\ week_keys # sorted_weeks

-----------------------------------------------------------------------------
(* C18 *)

\* C18: a section whose preceding bucket has Distance zero prints no
\* Distance Change, and one whose preceding bucket has Volume zero prints no
\* Volume Change, in week-level and period-level reports.
C18_NoChangeAfterZero ==
  \A k \in BucketSections :
    (k - 1) \in BucketSections =>
      /\ BucketOfSection(k - 1).Distance = 0 => report[k].distance_change = NoLine
      /\ BucketOfSection(k - 1).Volume = 0 => report[k].volume_change = NoLine

-----------------------------------------------------------------------------
(* C19 *)

\* C19: the first section of a bucket prints no change; a later one whose
\* preceding bucket has a non-zero Distance (Volume) prints
\* (current - previous) / previous * 100 of the two buckets' Distance
\* (Volume), to two decimals; 1000 kg*reps followed by 1100 prints 10.00.
C19_ChangeAgainstPrevious ==
  \A k \in BucketSections :
    IF (k - 1) \notin BucketSections
      THEN report[k].distance_change = NoLine /\ report[k].volume_change = NoLine
      ELSE LET current == BucketOfSection(k)
               previous == BucketOfSection(k - 1)
           IN  /\ previous.Distance # 0 =>
                    /\ Len(report[k].distance_change) = 1
                    /\ IsChangeFigure(report[k].distance_change[1],
                                      current.Distance, previous.Distance)
               /\ previous.Volume # 0 =>
                    /\ Len(report[k].volume_change) = 1
                    /\ IsChangeFigure(report[k].volume_change[1],
                                      current.Volume, previous.Volume)
               /\ (use_metric /\ previous.Volume = 1000 * 100
                     /\ current.Volume = 1100 * 100) =>
                    report[k].volume_change = << 1000 >>

\* a finished report with a bucket of 1000 kg*reps followed by one of 1100
\* and a bucket followed by one of another distance
C19_Witness ==
  /\ pc = "end"
  /\ use_metric
  /\ \E k \in BucketSections :
       /\ (k - 1) \in BucketSections
       /\ BucketOfSection(k - 1).Volume = 1000 * 100
       /\ BucketOfSection(k).Volume = 1100 * 100
       /\ BucketOfSection(k - 1).Distance # 0
       /\ BucketOfSection(k).Distance # BucketOfSection(k - 1).Distance

-----------------------------------------------------------------------------
(* C20 *)

\* C20 as stated: the averages are the totals divided by the number of
\* buckets of the requested mode (periods in monthly and N-weeks mode, weeks
\* otherwise), and there are none when there is no bucket.
C20_Original ==
  pc = "end" =>
    \A k \in OverallSections :
      report[k].averages =
        IF BucketNames = {} THEN NoLine
        ELSE << Statistics(TotalsOfWeeks, use_metric, Cardinality(BucketNames)) >>

\* C20: in every period mode the averages of the overall summary are the
\* totals over all weeks divided by the number of week buckets, and there are
\* none (and no division) when there is no week bucket.
C20_AveragesPerWeek ==
  pc = "end" =>
    \A k \in OverallSections :
      report[k].averages =
        IF DOMAIN summaries = {} THEN NoLine
        ELSE << Statistics(TotalsOfWeeks, use_metric,
                           Cardinality(DOMAIN summaries)) >>

\* a finished monthly report with a month of two weeks
C20_Witness ==
  /\ pc = "end"
  /\ period_type = "monthly"
  /\ OverallSections # {}
  /\ \E pk \in DOMAIN period_summaries : Len(period_summaries[pk].weeks) >= 2
  /\ \A k \in OverallSections : report[k].averages # NoLine


-----------------------------------------------------------------------------
(* C21 *)

\* the per-set display records of an exercise in a week's timeline that show
\* the weight of a set record (display weights are in 1e-8 kg, or in half
\* pounds; stored weights in 0.01 kg, or in half pounds)
DisplayRecordsShowing(wk, name, stored_weight) ==
  { sl \in { q \in (DOMAIN summaries[wk].Workouts) \X (1 .. MaxLen + 1) :
               q[2] <= Len(summaries[wk].Workouts[q[1]]) } :
      LET shown == summaries[wk].Workouts[sl[1]][sl[2]]
      IN  /\ shown.exercise = name
          /\ IF use_metric
               THEN shown.weight % 1000000 = 0
                      /\ shown.weight \div 1000000 = stored_weight
               ELSE shown.weight = stored_weight }

\* C21: in every bucket and for every exercise, as many per-set display
\* records of the timeline show a weight as there are set records of
\* Exercise_details storing it: each entry's displayed weight is its stored
\* weight, in both unit systems.
C21_DisplayedWeightIsStoredWeight ==
  \A wk \in DOMAIN summaries :
    \A name \in DOMAIN summaries[wk].Exercise_details :
      LET sets == summaries[wk].Exercise_details[name].sets
      IN  \A k \in DOMAIN sets :
            Cardinality(DisplayRecordsShowing(wk, name, sets[k].weight))
              = Cardinality({ h \in DOMAIN sets : sets[h].weight = sets[k].weight })


-----------------------------------------------------------------------------
(* C22 *)

\* the input entries of a week that carry an exercise name
IdsOfExercise(wk, name) ==
  { n \in IdsOfWeek(wk) : processed_data[n].Exercise = name }

\* what an input entry contributes, from its own fields alone
VolumeOfEntry(n) ==
  ConvertedWeight(processed_data[n].Weight, use_metric) * processed_data[n].Reps

DistanceOfEntry(n) == ConvertedDistance(processed_data[n].Distance, use_metric)

SumOverIds(F, ids) == SumFn([ n \in Ids |-> F[n] ], ids)

\* C22: when summarize_by_week is over, every total of a week bucket but the
\* strength duration is a sum, maximum or count over the set of the input
\* entries of that week, taken entry by entry; nothing in it depends on the
\* positions of the entries, so a permutation of the input leaves it as it is.
C22_TotalsIgnoreOrder ==
  pc = "done" =>
    \A wk \in DOMAIN summaries :
      LET bucket == summaries[wk]
          ids == IdsOfWeek(wk)
          reps == [ n \in Ids |-> processed_data[n].Reps ]
          duration == [ n \in Ids |-> processed_data[n].Duration ]
          volume == [ n \in Ids |-> VolumeOfEntry(n) ]
          distance == [ n \in Ids |-> DistanceOfEntry(n) ]
          names == { processed_data[n].Exercise : n \in ids }
      IN  /\ bucket.Reps = SumOverIds(reps, ids)
          /\ bucket.Volume = SumOverIds(volume, ids)
          /\ bucket.Distance = SumOverIds(distance, ids)
          /\ bucket.cardio_duration =
               SumOverIds(duration,
                          { n \in ids :
                              IsCardio(processed_data[n].Reps,
                                       processed_data[n].Distance,
                                       processed_data[n].Duration) })
          /\ DOMAIN bucket.Distance_by_exercise =
               { name \in names : SumOverIds(distance, IdsOfExercise(wk, name)) > 0 }
          /\ \A name \in DOMAIN bucket.Distance_by_exercise :
               bucket.Distance_by_exercise[name]
                 = SumOverIds(distance, IdsOfExercise(wk, name))
          /\ DOMAIN bucket.Volume_by_exercise =
               { name \in names : SumOverIds(volume, IdsOfExercise(wk, name)) > 0 }
          /\ \A name \in DOMAIN bucket.Volume_by_exercise :
               bucket.Volume_by_exercise[name]
                 = SumOverIds(volume, IdsOfExercise(wk, name))
          /\ DOMAIN bucket.Exercise_details = names
          /\ \A name \in names :
               LET details == bucket.Exercise_details[name]
                   of_name == IdsOfExercise(wk, name)
                   weights == { ConvertedWeight(processed_data[n].Weight, use_metric) :
                                  n \in of_name }
                   warmups == { n \in of_name : processed_data[n].isWarmup = "true" }
               IN  /\ details.total_volume = SumOverIds(volume, of_name)
                   /\ details.total_reps = SumOverIds(reps, of_name)
                   /\ details.total_duration = SumOverIds(duration, of_name)
                   /\ details.max_weight \in weights
                   /\ \A x \in weights : x <= details.max_weight
                   /\ details.warmup_sets = Cardinality(warmups)
                   /\ details.working_sets = Cardinality(of_name \ warmups)

\* the run is over on an input that is not in timestamp order, with a week
\* that holds an exercise twice, the heavier set first
C22_Witness ==
  /\ pc = "done"
  /\ \E a, b \in Ids : a < b /\ processed_data[a].Date > processed_data[b].Date
  /\ \E wk \in DOMAIN summaries : \E a, b \in IdsOfWeek(wk) :
       /\ a < b
       /\ processed_data[a].Exercise = processed_data[b].Exercise
       /\ processed_data[a].Weight > processed_data[b].Weight
       /\ processed_data[b].Weight > 0


-----------------------------------------------------------------------------
(* C23 *)

\* C23: in every week bucket and every period bucket the is_cardio tag of an
\* exercise's details is the is_cardio flag of each of its set records.
C23_CardioTagOfEverySet ==
  /\ \A wk \in DOMAIN summaries :
       \A name \in DOMAIN summaries[wk].Exercise_details :
         LET details == summaries[wk].Exercise_details[name]
         IN  \A k \in DOMAIN details.sets :
               details.sets[k].is_cardio = details.is_cardio
  /\ \A pk \in DOMAIN period_summaries :
       \A name \in DOMAIN period_summaries[pk].Exercise_details :
         LET details == period_summaries[pk].Exercise_details[name]
         IN  \A k \in DOMAIN details.sets :
               details.sets[k].is_cardio = details.is_cardio


-----------------------------------------------------------------------------
(* summarize_by_week on rows it cannot consume.  An exception that a loop   *)
(* raises is caught nowhere in the function: the call ends with it and      *)
(* returns nothing (pc = "error"); the locals it leaves behind are not      *)
(* seen by anyone.                                                          *)

\* generator.py:279-308
IngestFails ==
  /\ pc = "ingest"
  /\ i <= Len(processed_data)
  /\ IngestRaises(processed_data[i])
  /\ pc' = "error"
  /\ UNCHANGED << processed_data, use_metric, timezone, i, workouts_by_date,
                  date_keys, d, j, summaries, week_keys, report_vars >>

\* generator.py:392-411
SessionDurationsFails ==
  /\ pc = "durations"
  /\ d <= Len(date_keys)
  /\ SessionDurationsRaises(workouts_by_date[date_keys[d]].strength_sessions)
  /\ pc' = "error"
  /\ UNCHANGED << processed_data, use_metric, timezone, i, workouts_by_date,
                  date_keys, d, j, summaries, week_keys, report_vars >>

\* generator.py:418-439
AccumulateFails ==
  /\ pc = "stats"
  /\ d <= Len(date_keys)
  /\ AccumulateRaises(workouts_by_date[date_keys[d]].exercises[j])
  /\ pc' = "error"
  /\ UNCHANGED << processed_data, use_metric, timezone, i, workouts_by_date,
                  date_keys, d, j, summaries, week_keys, report_vars >>

\* a row without one of its fields
Without(entry, key) == [ f \in DOMAIN entry \ {key} |-> entry[f] ]

\* Sunday 23:36:00 and Sunday 00:00:00, the instants of a text without
\* seconds and of a text without a time
SundayLateMinute == 6 * 86400 + 84960
SundayMidnight == 6 * 86400

\* Rows as above, a working set whose Date is written in each of the other
\* ways, and a working set and a run without one of the fields.
ErrorEntries ==
  At({SundayLate}, {BenchSet})
    \cup At({WednesdayNoon}, {RunTimed})
    \cup { [Date |-> SundayLateMinute, DateText |-> MINUTE_FORMAT] @@ BenchSet,
           [Date |-> SundayMidnight, DateText |-> DATE_FORMAT] @@ BenchSet,
           [Date |-> SundayLate, DateText |-> FULL_WITH_OFFSET] @@ BenchSet,
           [Date |-> SundayLate, DateText |-> NO_FORMAT] @@ BenchSet }
    \cup { Without(Without(e, "DateText"), "Date") : e \in At({SundayLate}, {BenchSet}) }
    \cup { Without(e, key) :
             e \in At({SundayLate}, {BenchSet}),
             key \in {"Exercise", "Reps", "Weight", "Distance", "Duration", "isWarmup"} }
    \cup { Without(e, "isWarmup") : e \in At({WednesdayNoon}, {RunTimed}) }

InitErrors ==
  /\ processed_data \in SeqsUpTo(ErrorEntries, MaxLen)
  /\ use_metric \in BOOLEAN
  /\ timezone = 0
  /\ pc = IF processed_data = << >> THEN "done" ELSE "ingest"
  /\ i = 1
  /\ workouts_by_date = << >>
  /\ date_keys = << >>
  /\ d = 1
  /\ j = 1
  /\ summaries = << >>
  /\ week_keys = << >>
  /\ ReportInit({"None"}, {"summary"})

NextErrors ==
  Ingest \/ SessionDurations \/ AccumulateExercise \/ IngestFails
    \/ SessionDurationsFails \/ AccumulateFails

\* summarize_by_week on inputs with rows it cannot consume
SpecErrors == InitErrors /\ [][NextErrors]_vars


-----------------------------------------------------------------------------
(* Vocabulary of the properties about rows that cannot be consumed *)

\* the fields of a row that summarize_by_week consumes
ConsumedFields ==
  {"Date", "Exercise", "Reps", "Weight", "Distance", "Duration", "isWarmup"}

\* the rows without one of them
MissingFieldIds ==
  { n \in Ids : \E key \in ConsumedFields : key \notin DOMAIN processed_data[n] }

\* a Date text, its UTC offset cut off, is written in one of the three formats
InAFormat(entry) ==
  \E format \in {FULL_FORMAT, MINUTE_FORMAT, DATE_FORMAT} :
    entry.DateText = format
      \/ (entry.DateText = FULL_WITH_OFFSET /\ format = FULL_FORMAT)

\* the rows with a Date text that is in none of the three formats
BadDateIds ==
  { n \in Ids : "Date" \in DOMAIN processed_data[n] /\ ~InAFormat(processed_data[n]) }

-----------------------------------------------------------------------------
(* C24 *)

\* C24: a row whose Date text is in the full, the minute or the date-only
\* format is consumed at the instant the text denotes; the call never gets
\* past a row whose text is in none of them and never returns summaries: it
\* goes on until it ends with an error, which it does only on such a row or
\* on a row without a field.
C24_DateParsedOrCallFails ==
  /\ \A ex \in AllExercises :
       /\ InAFormat(Source(ex))
       /\ ex.local_datetime = Source(ex).Date + timezone
  /\ \A n \in BadDateIds : i <= n /\ pc \in {"ingest", "error"}
  /\ pc \notin {"done", "error"} => ENABLED NextErrors
  /\ pc = "error" => (BadDateIds \cup MissingFieldIds) # {}

\* the call has ended with an error on a row whose Date text is in no
\* format, after a row in the date-only format and one in the minute format
C24_Witness ==
  /\ pc = "error"
  /\ i \in BadDateIds
  /\ MissingFieldIds = {}
  /\ \E ex \in AllExercises : Source(ex).DateText = DATE_FORMAT
  /\ \E ex \in AllExercises : Source(ex).DateText = MINUTE_FORMAT

-----------------------------------------------------------------------------
(* C25 *)

\* C25: with a row that lacks a consumed field the call never returns
\* summaries: it goes on until it ends with an error, and after the error
\* nothing more happens; an input of complete rows with readable dates never
\* ends with an error.
C25_MissingFieldFailsTheCall ==
  /\ MissingFieldIds # {} => pc # "done"
  /\ (pc # "done" /\ pc # "error") => ENABLED NextErrors
  /\ pc = "error" => ~ENABLED NextErrors
  /\ (MissingFieldIds = {} /\ BadDateIds = {}) => pc # "error"

\* the call has ended with an error in the third loop, on a row without a
\* field, after it had accumulated another row
C25_Witness ==
  /\ pc = "error"
  /\ MissingFieldIds # {}
  /\ \E wk \in DOMAIN summaries : summaries[wk].Exercise_details # << >>

-----------------------------------------------------------------------------
(* C26 *)

\* the number of the first session whose last entry lies at most 1800
\* seconds before the instant "stamp" (and not after it), 0 when there is none
RECURSIVE FirstSessionBefore(_, _, _)
FirstSessionBefore(sessions, stamp, k) ==
  IF k > Len(sessions) THEN 0
  ELSE LET last_stamp == Source(sessions[k][Len(sessions[k])]).Date
       IN  IF last_stamp <= stamp /\ stamp - last_stamp <= 1800 THEN k
           ELSE FirstSessionBefore(sessions, stamp, k + 1)

\* the sessions of a day after its first n entries, built as stated: a
\* strength entry joins the first session whose last entry is at most 1800
\* seconds before it, and opens a new last session when there is none
RECURSIVE SessionsAsStated(_, _)
SessionsAsStated(exercises, n) ==
  IF n = 0 THEN << >>
  ELSE LET sessions == SessionsAsStated(exercises, n - 1)
           cur == exercises[n]
           k == FirstSessionBefore(sessions, Source(cur).Date, 1)
       IN  IF ~cur.is_strength THEN sessions
           ELSE IF k # 0 THEN [sessions EXCEPT ![k] = Append(@, cur)]
           ELSE Append(sessions, << cur >>)

\* C26 (as claimed): the sessions of every day are the ones obtained by
\* scanning, for each strength entry in arrival order, the day's sessions in
\* creation order, appending the entry to the first session whose last entry
\* is at most 1800 seconds (inclusive) before it, and creating a new session
\* at the end only when no session qualifies.
C26_FirstQualifyingSession ==
  \A dt \in DOMAIN workouts_by_date :
    SessionsOf(dt) =
      SessionsAsStated(workouts_by_date[dt].exercises,
                       Len(workouts_by_date[dt].exercises))

-----------------------------------------------------------------------------
(* C29 *)

\* C29 (as claimed): whatever the order of the input entries, the duration
\* of every session is non-negative, and so is the strength_duration of
\* every week bucket.
C29_DurationsNonNegative ==
  /\ \A slot \in SessionSlots :
       SessionDuration(SessionsOf(slot[1])[slot[2]]) >= 0
  /\ \A wk \in DOMAIN summaries : summaries[wk].strength_duration >= 0

-----------------------------------------------------------------------------
(* C30 *)

\* the entries of the day dt consumed so far arrived in non-decreasing
\* timestamp order
ArrivedInOrder(dt) ==
  LET exercises == workouts_by_date[dt].exercises
  IN  \A a, b \in DOMAIN exercises :
        a < b => Source(exercises[a]).Date <= Source(exercises[b]).Date

IsStrengthEntry(ex) == ex.is_strength

\* the timestamps an entry that arrives next, in order, on the day dt can have
LaterStamps(dt) ==
  { stamp \in { entry.Date : entry \in Entries } :
      /\ (stamp + timezone) \div 86400 = dt
      /\ \A ex \in Range(workouts_by_date[dt].exercises) :
           Source(ex).Date <= stamp }

\* C30: on a day whose entries arrive in non-decreasing timestamp order,
\* no session but the most recently created one passes the gap test for an
\* entry that arrives next; every strength entry has therefore joined the
\* session that was the last one when it arrived, or opened a new last one,
\* so the sessions in creation order are the day's strength entries in
\* arrival order cut into pieces; and the last entry of a session is more
\* than 1800 seconds before the first entry of the next, so the sessions
\* cover pairwise disjoint intervals of time.
C30_SessionsDisjointInOrder ==
  \A dt \in DOMAIN workouts_by_date :
    ArrivedInOrder(dt)
      => LET sessions == SessionsOf(dt)
         IN  /\ \A stamp \in LaterStamps(dt) :
                  \A k \in 1 .. (Len(sessions) - 1) :
                    (stamp + timezone)
                      - sessions[k][Len(sessions[k])].local_datetime
                        > SESSION_GAP
             /\ Concat(sessions) =
                  SelectSeq(workouts_by_date[dt].exercises, IsStrengthEntry)
             /\ \A k \in 1 .. (Len(sessions) - 1) :
                  Source(sessions[k + 1][1]).Date
                    - Source(sessions[k][Len(sessions[k])]).Date > 1800

\* the run is over; on a day whose entries arrived in order there are two
\* sessions, one of them of two entries, and an entry at the day's last
\* timestamp could still arrive
C30_Witness ==
  /\ pc = "done"
  /\ \E dt \in DOMAIN workouts_by_date :
       /\ ArrivedInOrder(dt)
       /\ Len(SessionsOf(dt)) = 2
       /\ \E k \in 1 .. 2 : Len(SessionsOf(dt)[k]) = 2
       /\ LaterStamps(dt) # {}

-----------------------------------------------------------------------------
(* Vocabulary of the properties about the detailed report *)

\* the row a Set Progression table prints for a recorded set
RowOfSet(set) ==
  [ weight |-> FormatOneDecimal(set.weight, WeightScale(use_metric)),
    reps |-> set.reps,
    type |-> IF set.is_warmup THEN "Warmup" ELSE "Working" ]

\* the rows are those of the sets, in the order the sets were recorded
ListedInInsertionOrder(rows, sets) ==
  rows = [ k \in DOMAIN sets |-> RowOfSet(sets[k]) ]

\* the rows are those of the sets, each set once, working sets before
\* warm-up sets and, among the sets of one kind, heavier sets first
ListedSorted(rows, sets) ==
  /\ Len(rows) = Len(sets)
  /\ \E perm \in [DOMAIN sets -> DOMAIN sets] :
       /\ \A a, b \in DOMAIN sets : a # b => perm[a] # perm[b]
       /\ \A k \in DOMAIN sets : rows[k] = RowOfSet(sets[perm[k]])
       /\ \A k, n \in DOMAIN sets :
            k < n => LET one == sets[perm[k]]
                         other == sets[perm[n]]
                     IN  /\ one.is_warmup => other.is_warmup
                         /\ one.is_warmup = other.is_warmup
                              => one.weight >= other.weight

\* the sets are recorded in another order than working-first, heaviest-first
RecordedUnsorted(sets) ==
  \E k, n \in DOMAIN sets :
    /\ k < n
    /\ \/ sets[k].is_warmup /\ ~sets[n].is_warmup
       \/ sets[k].is_warmup = sets[n].is_warmup /\ sets[k].weight < sets[n].weight

\* the recorded sets behind the n-th Exercise Details entry of section k
SetsOfDetail(k, n) ==
  BucketOfSection(k).Exercise_details[report[k].exercise_details[n].exercise].sets

-----------------------------------------------------------------------------
(* C27 *)

-----------------------------------------------------------------------------
(* C28 *)

\* C28 (as claimed): in a week-level detailed report, the Daily Workouts
\* part of a week section has a part for every local date of the week with
\* entries, which lists every exercise performed on that date, and the
\* number of set rows under a date equals the number of entries of that
\* local date.
C28_EveryDayListsEverySet ==
  (report_format = "detailed" /\ period_type = "weekly") =>
    \A k \in BucketSections :
      LET days == report[k].daily_workouts
      IN  /\ { days[a].date : a \in DOMAIN days }
               = { LocalDay(n) : n \in IdsOfWeek(report[k].name) }
          /\ \A a \in DOMAIN days :
               LET ids == { n \in Ids : LocalDay(n) = days[a].date }
                   tables == days[a].tables
               IN  /\ { tables[b].exercise : b \in DOMAIN tables }
                        = { processed_data[n].Exercise : n \in ids }
                   /\ SumSeq([ b \in DOMAIN tables |-> Len(tables[b].rows) ])
                        = Cardinality(ids)

====
